---------------------------- MODULE Spec2Model ----------------------------
(***************************************************************************)
(* Model of the recipe-extraction pipeline of myrecipebook:               *)
(*   src/lib/extraction-utils.ts       withRetry, withTimeout, normalizeUrl*)
(*   src/lib/structured-data-parser.ts fetchHtmlContent, parseJsonLdRecipe *)
(*   src/types.ts                      sanitizeRecipeData, validateRecipeData*)
(*   src/lib/ai.ts (second half)       the orchestrators                   *)
(*   src/app/api/recipes/generate/route.ts   POST                          *)
(*                                                                         *)
(* Two specifications share the variables:                                 *)
(*   SpecUtil  withRetry(() => withTimeout(op)) with every promise, timer  *)
(*             and backoff event a step of its own;                        *)
(*   Spec      one POST /api/recipes/generate request, every awaited call   *)
(*             a step.                                                     *)
(*                                                                         *)
(* A string is a sequence of tokens.  Prose (titles, transcripts) has one  *)
(* token per character; a URL has one token per syntactic part.            *)
(***************************************************************************)
EXTENDS Integers, Sequences, FiniteSets, TLC

VARIABLES
    \* ---- withRetry / withTimeout (extraction-utils.ts) ----
    maxRetries,     \* withRetry's parameter
    initialDelay,   \* withRetry's parameter
    errorMessage,   \* withTimeout's parameter
    attempt,        \* withRetry's loop index
    lastError,      \* withRetry's local
    races,          \* one record per invocation of fn: the operation, the timer, the race
    delays,         \* the backoff waits performed so far, in order
    upc,            \* position of the withRetry call under SpecUtil
    outcome,        \* how that withRetry call completed
    \* ---- one request (route.ts, ai.ts) ----
    stack,          \* the chain of awaiting functions, innermost last
    ret,            \* the completion being delivered to the innermost function
    req,            \* the request body
    site,           \* which closure the active withRetry wraps
    html,           \* extractRecipeFromUrl: the fetched page
    textArg,        \* the text handed to getTextContentFromUrlWithAI / structureTextToRecipe
    draft,          \* recipeData / validated of the running orchestrator
    log,            \* network and AI calls issued so far, in order
    response,       \* what POST answered
    \* ---- the stored recipe and the requests on it (api/recipes/[id]) ----
    db,             \* the rows of one recipe: imageUrls, ingredients, instructions
    handlers        \* one record per request on that recipe: where it is, its locals

utilVars == <<maxRetries, initialDelay, errorMessage, attempt, lastError, races, delays, upc, outcome>>
reqVars  == <<stack, ret, req, site, html, textArg, draft, log, response>>
dbVars   == <<db, handlers>>
vars     == <<maxRetries, initialDelay, errorMessage, attempt, lastError, races, delays, upc, outcome,
              stack, ret, req, site, html, textArg, draft, log, response, db, handlers>>

(***************************************************************************)
(* Loosely typed (JSON / JavaScript) values: a tag and, under a field      *)
(* named after the type, the payload.                                      *)
(***************************************************************************)
JUndef    == [t |-> "undefined"]
JNull     == [t |-> "null"]
JStr(s)   == [t |-> "string", str |-> s]
JNum(n)   == [t |-> "number", num |-> n]
JArr(seq) == [t |-> "array", arr |-> seq]
JObj(rec) == [t |-> "object", obj |-> rec]

\* ToBoolean
Truthy(x) ==
    CASE x.t \in {"undefined", "null"} -> FALSE
      [] x.t = "string" -> x.str # <<>>
      [] x.t = "number" -> x.num # 0
      [] OTHER -> TRUE

\* a || b
OrElse(a, b) == IF Truthy(a) THEN a ELSE b

\* x[f] of a value that is neither null nor undefined
Get(x, f) == IF x.t = "object" /\ f \in DOMAIN x.obj THEN x.obj[f] ELSE JUndef

\* decimal tokens of the vocabulary and their values
NumTokens == {"0", "1", "2", "4", "6"}

NumValue(tok) ==
    CASE tok = "0" -> 0 [] tok = "1" -> 1 [] tok = "2" -> 2 [] tok = "4" -> 4 [] tok = "6" -> 6

NumToken(n) ==
    CASE n = 0 -> "0" [] n = 1 -> "1" [] n = 2 -> "2" [] n = 4 -> "4" [] n = 6 -> "6"

(***************************************************************************)
(* Bounds of the model.                                                    *)
(***************************************************************************)
MaxRetriesBound == 3

(***************************************************************************)
(* Strings.                                                                *)
(***************************************************************************)
Rep(c, n) == [i \in 1..n |-> c]

IsSpace(c) == c \in {" ", "\n"}

RECURSIVE TrimStart(_)
TrimStart(s) == IF s # <<>> /\ IsSpace(Head(s)) THEN TrimStart(Tail(s)) ELSE s

RECURSIVE TrimEnd(_)
TrimEnd(s) ==
    IF s # <<>> /\ IsSpace(s[Len(s)]) THEN TrimEnd(SubSeq(s, 1, Len(s) - 1)) ELSE s

\* String.prototype.trim
Trim(s) == TrimEnd(TrimStart(s))

UpperChar(c) ==
    CASE c = "e" -> "E" [] c = "r" -> "R" [] c = "o" -> "O" [] OTHER -> c

\* String.prototype.toUpperCase
ToUpperCase(s) == [i \in 1..Len(s) |-> UpperChar(s[i])]

(***************************************************************************)
(* Errors.  RecipeExtractionError carries a code; every other Error class  *)
(* has none.  A message is a text and, for a validation failure, the list  *)
(* of issues.                                                              *)
(***************************************************************************)
ErrorCodes ==
    {"NETWORK_ERROR", "NO_RECIPE_FOUND", "PARSING_ERROR", "API_LIMIT", "TIMEOUT", "VALIDATION_ERROR"}

Msg(text) == [text |-> text, issues |-> <<>>]

NoCause == [cls |-> "none"]

RecipeExtractionErrorCausedBy(message, code, cause) ==
    [cls |-> "RecipeExtractionError", code |-> code, msg |-> message, cause |-> cause]

RecipeExtractionError(message, code) == RecipeExtractionErrorCausedBy(message, code, NoCause)

OtherError(cls, message) == [cls |-> cls, code |-> "none", msg |-> message, cause |-> NoCause]

PlainError(message) == OtherError("Error", message)

\* `throw lastError!` with lastError never assigned
UndefinedError == OtherError("undefined", Msg(""))

InstanceOfRecipeExtractionError(e) == e.cls = "RecipeExtractionError"

(***************************************************************************)
(* Completions of a promise.                                               *)
(***************************************************************************)
Pending      == [k |-> "pending"]
Fulfilled(v) == [k |-> "value", v |-> v]
Rejected(e)  == [k |-> "throw", e |-> e]
NoCompletion == [k |-> "none"]

(***************************************************************************)
(* withTimeout: Promise.race of the operation and a timer that rejects     *)
(* with TIMEOUT.  A race promise settles with the first settlement it is   *)
(* handed and ignores every later one.                                     *)
(***************************************************************************)
TimerRejection(message) == Rejected(RecipeExtractionError(message, "TIMEOUT"))

MutRaceSettle(race, completion) == completion

RaceSettle(race, completion) == IF race.k = "pending" THEN completion ELSE race

\* the completion withTimeout hands its awaiter when `first` is the first
\* of the two racers to settle: [by |-> "op", c |-> completion] or [by |-> "timer"]
withTimeout(first, message) ==
    IF first.by = "timer"
    THEN RaceSettle(Pending, TimerRejection(message))
    ELSE RaceSettle(Pending, first.c)

\* the defaults of withRetry's parameters
DefaultMaxRetries   == 3
DefaultInitialDelay == 1000

(***************************************************************************)
(* withRetry: what the catch block does with the error of attempt number   *)
(* `att` (from 0): "throw" re-raises it, "wait" starts the backoff timer.  *)
(***************************************************************************)
IsPermanent(e) ==
    InstanceOfRecipeExtractionError(e) /\ e.code \in {"NO_RECIPE_FOUND", "VALIDATION_ERROR"}

MutCatchRetriesPermanent(e, att, max) == IF att = max - 1 THEN "throw" ELSE "wait"

MutCatchOneFewer(e, att, max) ==
    IF IsPermanent(e) THEN "throw"
    ELSE IF att >= max - 2 THEN "throw"
    ELSE "wait"

withRetryCatch(e, att, max) ==
    IF IsPermanent(e) THEN "throw"
    ELSE IF att = max - 1 THEN "throw"
    ELSE "wait"

RECURSIVE Pow2(_)
Pow2(n) == IF n = 0 THEN 1 ELSE 2 * Pow2(n - 1)

\* the exponent one too high
MutBackoffNextPower(delay, att) == delay * Pow2(att + 1)

\* initialDelay * Math.pow(2, attempt)
BackoffDelay(delay, att) == delay * Pow2(att)


(***************************************************************************)
(* URLs: one token per part.  new URL(s) succeeds on an http(s) scheme     *)
(* followed by a well-formed host, and on a data: URL.                     *)
(***************************************************************************)
HostTokens == {"example.com", "www.youtube.com", "youtu.be"}

BadHostTokens == {"exa mple.com"}

VideoIdTokens == {"dQw4w9WgXcQ"}

\* schemes the URL parser treats as special (it lower-cases the scheme first)
SpecialSchemeTokens == {"https://", "http://", "ftp://", "HTTPS://"}

\* schemes with an opaque path: whatever follows, the parse succeeds
OpaqueSchemeTokens == {"data:"}

\* tokens that start with a slash
SlashTokens ==
    {"/", "/soup", "/channel", "/watch?v=", "/embed/", "/v/", "/vi/",
     "/maxresdefault.jpg", "/9j/4AAQ"}

\* tokens that hold a "/", "?" or "#" after their first character: the
\* authority of the URL ends inside them
DelimiterTokens ==
    SpecialSchemeTokens
    \cup {"/watch?v=", "/embed/", "/v/", "/vi/", "/9j/4AAQ", "image/png;base64,"}

\* the text of a token up to its first delimiter (leading slashes apart), as
\* the host parser sees it: host characters, a forbidden host character, a
\* colon (the port follows)
AuthorityPieces(t) ==
    IF t = "/" THEN <<>>
    ELSE IF t \in BadHostTokens THEN <<"bad">>
    ELSE IF t \in SpecialSchemeTokens \cup OpaqueSchemeTokens THEN <<"host", "colon">>
    ELSE <<"host">>

RECURSIVE Authority(_, _, _)
\* the authority of a special-scheme URL from token i on; leading slashes are
\* skipped until the first authority character (started)
Authority(s, i, started) ==
    IF i > Len(s) THEN <<>>
    ELSE IF s[i] \in SlashTokens /\ started THEN <<>>
    ELSE AuthorityPieces(s[i])
         \o (IF s[i] \in DelimiterTokens THEN <<>>
             ELSE Authority(s, i + 1, started \/ AuthorityPieces(s[i]) # <<>>))

\* a host without forbidden characters, then at most an empty port
IsValidAuthority(p) ==
    /\ p # <<>>
    /\ p[1] = "host"
    /\ \A j \in DOMAIN p : p[j] # "bad" /\ (p[j] = "colon" => j = Len(p))

\* the authority after a scheme that is not special: it may be empty, and a
\* slash ends it at once
IsValidOpaqueAuthority(p) ==
    \A j \in DOMAIN p : p[j] # "bad" /\ (p[j] = "colon" => j = Len(p))

\* tokens 1..k-1 are scheme characters only, so that the colon of token k
\* ends a scheme of the string's own
IsSchemePrefix(s, k) ==
    \A j \in 1..(k - 1) :
        /\ s[j] \notin SlashTokens \cup DelimiterTokens \cup OpaqueSchemeTokens
        /\ AuthorityPieces(s[j]) = <<"host">>

\* new URL(s) does not throw
IsValidUrl(s) ==
    /\ s # <<>>
    /\ \/ s[1] \in OpaqueSchemeTokens
       \/ /\ s[1] \in SpecialSchemeTokens
          /\ IsValidAuthority(Authority(s, 2, FALSE))
       \/ \E k \in 2..Len(s) :
             /\ IsSchemePrefix(s, k)
             /\ \/ s[k] \in OpaqueSchemeTokens
                \/ /\ s[k] \in SpecialSchemeTokens
                   /\ IsValidOpaqueAuthority(Authority(s, k + 1, TRUE))

\* normalizeUrl without its startsWith test: the protocol is always added
MutNormalizeAlwaysPrepends(url) ==
    IF IsValidUrl(<<"https://">> \o url)
    THEN [k |-> "value", v |-> <<"https://">> \o url]
    ELSE [k |-> "throw",
          e |-> [cls |-> "RecipeExtractionError", code |-> "VALIDATION_ERROR",
                 msg |-> [text |-> "Invalid URL format", issues |-> <<>>],
                 cause |-> [cls |-> "none"]]]

\* extraction-utils.ts normalizeUrl: the completion of the call
normalizeUrl(url) ==
    LET u == IF ~(url # <<>> /\ url[1] = "http://") /\ ~(url # <<>> /\ url[1] = "https://")
             THEN <<"https://">> \o url
             ELSE url
    IN  IF IsValidUrl(u)
        THEN Fulfilled(u)
        ELSE Rejected(RecipeExtractionError(Msg("Invalid URL format"), "VALIDATION_ERROR"))

\* content.includes('youtube.com') || content.includes('youtu.be')
IncludesYoutube(s) == \E i \in DOMAIN s : s[i] \in {"www.youtube.com", "youtu.be"}

\* no identifier is ever found
MutVideoIdNever(url) == [t |-> "null"]

\* /(?:youtube\.com\/(?:[^/]+\/.+\/|(?:v|e(?:mbed)?)\/|.*[?&]v=)|youtu\.be\/)([^"&?/ ]{11})/
getYoutubeVideoId(url) ==
    LET hits == { i \in DOMAIN url :
                    /\ i + 2 <= Len(url)
                    /\ url[i + 2] \in VideoIdTokens
                    /\ \/ url[i] = "www.youtube.com"
                          /\ url[i + 1] \in {"/watch?v=", "/embed/", "/v/"}
                       \/ url[i] = "youtu.be" /\ url[i + 1] = "/" }
    IN  IF hits = {} THEN JNull
        ELSE JStr(<<url[(CHOOSE i \in hits : \A j \in hits : i <= j) + 2]>>)

ThumbnailUrl(videoId) ==
    <<"https://", "img.youtube.com", "/vi/">> \o videoId \o <<"/maxresdefault.jpg">>

(***************************************************************************)
(* types.ts: sanitizeRecipeData.                                           *)
(***************************************************************************)
DefaultServings == 4

sanitizeString(value) == IF value.t = "string" THEN Trim(value.str) ELSE <<>>

\* Two doubles beyond the integers of the model.  Sextillion stands for
\* 1e21, the least number that String() writes with an exponent ("1e+21");
\* Infinity stands for the double Infinity, which parseInt returns for a
\* run of digits beyond Number.MAX_VALUE and String() writes as "Infinity".
Sextillion == 1000000000
Infinity   == 2147483647

\* a token of 22 digits (the decimal digits of 1e21) and one of 400 digits
SextillionDigits == "1000000000000000000000"
OverflowDigits   == "9 (400 times)"

\* Number.isInteger
IsInteger(n) == n # Infinity

\* parseInt(String(value), 10); NaN is rendered as -1 (never > 0).  The
\* string of a number from 1e21 on is its mantissa, "e+" and the exponent,
\* of which parseInt reads the digits before the point; "Infinity" has none.
ParseInt(value) ==
    CASE value.t = "number" ->
            IF value.num = Infinity THEN -1
            ELSE IF value.num = Sextillion THEN 1
            ELSE value.num
      [] value.t = "string" ->
            LET s == TrimStart(value.str)
            IN  IF s # <<>> /\ s[1] \in NumTokens THEN NumValue(s[1])
                ELSE IF s # <<>> /\ s[1] = SextillionDigits THEN Sextillion
                ELSE IF s # <<>> /\ s[1] = OverflowDigits THEN Infinity
                ELSE -1
      [] OTHER -> -1

sanitizeNumber(value, defaultValue) ==
    LET num == ParseInt(value) IN IF num > 0 THEN num ELSE defaultValue

RECURSIVE SelectSeq2(_, _)
\* the elements of s whose flag is set, in order; halved so that long lists
\* nest only logarithmically deep
SelectSeq2(s, keep) ==
    IF s = <<>> THEN <<>>
    ELSE IF Len(s) = 1 THEN (IF keep[1] THEN s ELSE <<>>)
    ELSE LET h == Len(s) \div 2
         IN  SelectSeq2(SubSeq(s, 1, h), SubSeq(keep, 1, h))
             \o SelectSeq2(SubSeq(s, h + 1, Len(s)), SubSeq(keep, h + 1, Len(s)))

\* Array.prototype.filter with the predicate tabulated per index
Filter(s, keep) == SelectSeq2(s, [i \in 1..Len(s) |-> keep[i]])

sanitizeIngredients(ingredients) ==
    IF ingredients.t # "array" THEN <<>>
    ELSE LET a      == ingredients.arr
             objs   == Filter(a, [i \in 1..Len(a) |-> a[i].t \in {"object", "array"}])
             mapped == [i \in 1..Len(objs) |->
                          JObj([name     |-> JStr(sanitizeString(Get(objs[i], "name"))),
                                quantity |-> JStr(sanitizeString(Get(objs[i], "quantity")))])]
         IN  Filter(mapped, [i \in 1..Len(mapped) |-> Len(mapped[i].obj.name.str) > 0])

sanitizeInstructions(instructions) ==
    IF instructions.t # "array" THEN <<>>
    ELSE LET a      == instructions.arr
             mapped == [i \in 1..Len(a) |-> JStr(sanitizeString(a[i]))]
         IN  Filter(mapped, [i \in 1..Len(mapped) |-> Len(mapped[i].str) > 0])

TypeErrorOnNullish == OtherError("TypeError", Msg("Cannot read properties of null"))

\* the completion of sanitizeRecipeData(data): reading data.title throws on
\* null and undefined
sanitizeRecipeData(data) ==
    IF data.t \in {"null", "undefined"}
    THEN Rejected(TypeErrorOnNullish)
    ELSE Fulfilled(JObj([
            title        |-> JStr(sanitizeString(Get(data, "title"))),
            description  |-> JStr(sanitizeString(Get(data, "description"))),
            servings     |-> JNum(sanitizeNumber(Get(data, "servings"), DefaultServings)),
            ingredients  |-> JArr(sanitizeIngredients(Get(data, "ingredients"))),
            instructions |-> JArr(sanitizeInstructions(Get(data, "instructions"))),
            imageUrls    |-> IF Get(data, "imageUrls").t = "array"
                             THEN Get(data, "imageUrls") ELSE JArr(<<>>),
            sourceUrl    |-> OrElse(Get(data, "sourceUrl"), JUndef)]))

(***************************************************************************)
(* types.ts: RecipeDataSchema and validateRecipeData.  An issue names the  *)
(* top-level field, the element index (-1: none), the element's field and  *)
(* the message; issues come in the order zod reports them.                 *)
(***************************************************************************)
MaxTitleLength  == 200
MaxIngredients  == 100
MaxInstructions == 50

Issue(field, index, sub, message) ==
    [field |-> field, index |-> index, sub |-> sub, message |-> message]

TypeIssue(field, index, sub, x) ==
    Issue(field, index, sub, IF x.t = "undefined" THEN "Required" ELSE "Invalid type")

RECURSIVE ConcatAll(_)
ConcatAll(ss) ==
    IF ss = <<>> THEN <<>>
    ELSE IF Len(ss) = 1 THEN ss[1]
    ELSE LET h == Len(ss) \div 2
         IN  ConcatAll(SubSeq(ss, 1, h)) \o ConcatAll(SubSeq(ss, h + 1, Len(ss)))

When(cond, issue) == IF cond THEN <<issue>> ELSE <<>>

\* z.string().min(1, ...).max(200, ...)
TitleIssues(x) ==
    IF x.t # "string" THEN <<TypeIssue("title", -1, "", x)>>
    ELSE When(Len(x.str) < 1, Issue("title", -1, "", "Recipe title is required"))
         \o When(Len(x.str) > MaxTitleLength, Issue("title", -1, "", "Title too long"))

\* z.string().min(1, ...)
DescriptionIssues(x) ==
    IF x.t # "string" THEN <<TypeIssue("description", -1, "", x)>>
    ELSE When(Len(x.str) < 1, Issue("description", -1, "", "Recipe description is required"))

\* z.number().int().positive(...).default(4)
ServingsIssues(x) ==
    IF x.t = "undefined" THEN <<>>
    ELSE IF x.t # "number" THEN <<TypeIssue("servings", -1, "", x)>>
    ELSE When(~IsInteger(x.num), Issue("servings", -1, "", "Expected integer, received float"))
         \o When(x.num <= 0, Issue("servings", -1, "", "Servings must be a positive number"))

\* IngredientSchema
IngredientIssues(x, i) ==
    IF x.t # "object" THEN <<TypeIssue("ingredients", i, "", x)>>
    ELSE (IF Get(x, "name").t # "string"
          THEN <<TypeIssue("ingredients", i, "name", Get(x, "name"))>>
          ELSE When(Len(Get(x, "name").str) < 1,
                    Issue("ingredients", i, "name", "Ingredient name is required")))
         \o When(Get(x, "quantity").t # "string",
                 TypeIssue("ingredients", i, "quantity", Get(x, "quantity")))

\* the upper bound of the array tested with >= instead of >
MutIngredientsIssuesOffByOne(x) ==
    IF x.t # "array" THEN <<TypeIssue("ingredients", -1, "", x)>>
    ELSE When(Len(x.arr) < 1, Issue("ingredients", -1, "", "At least one ingredient is required"))
         \o When(Len(x.arr) >= MaxIngredients, Issue("ingredients", -1, "", "Too many ingredients"))

\* z.array(IngredientSchema).min(1, ...).max(100, ...)
IngredientsIssues(x) ==
    IF x.t # "array" THEN <<TypeIssue("ingredients", -1, "", x)>>
    ELSE When(Len(x.arr) < 1, Issue("ingredients", -1, "", "At least one ingredient is required"))
         \o When(Len(x.arr) > MaxIngredients, Issue("ingredients", -1, "", "Too many ingredients"))
         \o ConcatAll([i \in 1..Len(x.arr) |-> IngredientIssues(x.arr[i], i - 1)])

InstructionIssues(x, i) ==
    IF x.t # "string" THEN <<TypeIssue("instructions", i, "", x)>>
    ELSE When(Len(x.str) < 1, Issue("instructions", i, "", "Instruction step cannot be empty"))

\* z.array(z.string().min(1, ...)).min(1, ...).max(50, ...)
InstructionsIssues(x) ==
    IF x.t # "array" THEN <<TypeIssue("instructions", -1, "", x)>>
    ELSE When(Len(x.arr) < 1,
              Issue("instructions", -1, "", "At least one instruction step is required"))
         \o When(Len(x.arr) > MaxInstructions,
                 Issue("instructions", -1, "", "Too many instruction steps"))
         \o ConcatAll([i \in 1..Len(x.arr) |-> InstructionIssues(x.arr[i], i - 1)])

UrlIssues(field, i, x) ==
    IF x.t # "string" THEN <<TypeIssue(field, i, "", x)>>
    ELSE When(~IsValidUrl(x.str), Issue(field, i, "", "Invalid url"))

\* z.array(z.string().url()).optional().default([])
ImageUrlsIssues(x) ==
    IF x.t = "undefined" THEN <<>>
    ELSE IF x.t # "array" THEN <<TypeIssue("imageUrls", -1, "", x)>>
    ELSE ConcatAll([i \in 1..Len(x.arr) |-> UrlIssues("imageUrls", i - 1, x.arr[i])])

\* z.string().url().optional()
SourceUrlIssues(x) == IF x.t = "undefined" THEN <<>> ELSE UrlIssues("sourceUrl", -1, x)

\* a parse that stops at the first field that fails
MutFirstFailingFieldOnly(data) ==
    IF data.t # "object" THEN <<TypeIssue("", -1, "", data)>>
    ELSE IF TitleIssues(Get(data, "title")) # <<>> THEN TitleIssues(Get(data, "title"))
    ELSE IF DescriptionIssues(Get(data, "description")) # <<>>
         THEN DescriptionIssues(Get(data, "description"))
    ELSE IF ServingsIssues(Get(data, "servings")) # <<>> THEN ServingsIssues(Get(data, "servings"))
    ELSE IF IngredientsIssues(Get(data, "ingredients")) # <<>>
         THEN IngredientsIssues(Get(data, "ingredients"))
    ELSE IF InstructionsIssues(Get(data, "instructions")) # <<>>
         THEN InstructionsIssues(Get(data, "instructions"))
    ELSE IF ImageUrlsIssues(Get(data, "imageUrls")) # <<>>
         THEN ImageUrlsIssues(Get(data, "imageUrls"))
    ELSE SourceUrlIssues(Get(data, "sourceUrl"))

\* the issues of RecipeDataSchema.parse(data)
RecipeDataSchemaIssues(data) ==
    IF data.t # "object" THEN <<TypeIssue("", -1, "", data)>>
    ELSE TitleIssues(Get(data, "title"))
         \o DescriptionIssues(Get(data, "description"))
         \o ServingsIssues(Get(data, "servings"))
         \o IngredientsIssues(Get(data, "ingredients"))
         \o InstructionsIssues(Get(data, "instructions"))
         \o ImageUrlsIssues(Get(data, "imageUrls"))
         \o SourceUrlIssues(Get(data, "sourceUrl"))

\* the parsed value: the defaults applied
RecipeDataSchemaOutput(data) ==
    JObj([title        |-> Get(data, "title"),
          description  |-> Get(data, "description"),
          servings     |-> IF Get(data, "servings").t = "undefined"
                           THEN JNum(DefaultServings) ELSE Get(data, "servings"),
          ingredients  |-> Get(data, "ingredients"),
          instructions |-> Get(data, "instructions"),
          imageUrls    |-> IF Get(data, "imageUrls").t = "undefined"
                           THEN JArr(<<>>) ELSE Get(data, "imageUrls"),
          sourceUrl    |-> Get(data, "sourceUrl")])

ValidationMessage(issues) == [text |-> "Recipe validation failed", issues |-> issues]

\* the completion of validateRecipeData(data)
validateRecipeData(data) ==
    LET issues == RecipeDataSchemaIssues(data)
    IN  IF issues = <<>>
        THEN Fulfilled(RecipeDataSchemaOutput(data))
        ELSE Rejected(RecipeExtractionError(ValidationMessage(issues), "VALIDATION_ERROR"))

(***************************************************************************)
(* structured-data-parser.ts.  A fetched document is the sequence of its   *)
(* elements, [tag, attr, content]:                                         *)
(*   script  attr: its type         text: [kind, data] (see below)         *)
(*   meta    attr: property / name  content: the content attribute         *)
(*   title, p                       content: the text                      *)
(* The content of a script is empty, malformed, or JSON text denoting the  *)
(* value `data`.  Ingredient strings have one token per word, number or    *)
(* blank.                                                                  *)
(***************************************************************************)
Element(tag, attr, content) == [tag |-> tag, attr |-> attr, content |-> content]

Script(type, text) == [tag |-> "script", attr |-> type, text |-> text]

JsonText(data) == [kind |-> "json", data |-> data]
MalformedText  == [kind |-> "malformed", data |-> JUndef]
EmptyText      == [kind |-> "empty", data |-> JUndef]

\* String(x)
StringOf(x) ==
    CASE x.t = "string"    -> x.str
      [] x.t = "number"    -> <<NumToken(x.num)>>
      [] x.t = "null"      -> <<"n", "u", "l", "l">>
      [] x.t = "undefined" -> <<"u", "n", "d", "e", "f", "i", "n", "e", "d">>
      [] OTHER             -> <<"[object", " ", "Object]">>

UnitTokens == {"cup", "cups", "tbsp", "tsp", "g", "kg", "ml", "oz"}

\* [\d\s\/\-¼½¾⅓⅔⅛⅜⅝⅞]
IsQuantityToken(tok) == tok \in NumTokens \cup {"1/2", "-", " "}

\* length of the longest prefix of s made of quantity tokens
RECURSIVE QuantityPrefixLen(_)
QuantityPrefixLen(s) ==
    IF s # <<>> /\ IsQuantityToken(Head(s)) THEN 1 + QuantityPrefixLen(Tail(s)) ELSE 0

\* structured-data-parser.ts parseIngredientString: the leftmost-greedy
\* match of  ^([Q]+(?:\s+(?:unit)?)?)\s+(.+)$  on the trimmed string
parseIngredientString(ingredientStr) ==
    LET trimmed == Trim(ingredientStr)
        cuts    == { n \in 1..QuantityPrefixLen(trimmed) :
                        n + 1 <= Len(trimmed) /\ trimmed[n + 1] = " " }
    IN  IF cuts = {}
        THEN [quantity |-> <<>>, name |-> trimmed]
        ELSE LET n == CHOOSE c \in cuts : \A d \in cuts : d <= c
                 unit == /\ n + 3 <= Len(trimmed)
                         /\ trimmed[n + 2] \in UnitTokens
                         /\ trimmed[n + 3] = " "
             IN  IF unit
                 THEN [quantity |-> Trim(SubSeq(trimmed, 1, n + 2)),
                       name     |-> Trim(SubSeq(trimmed, n + 3, Len(trimmed)))]
                 ELSE [quantity |-> Trim(SubSeq(trimmed, 1, n)),
                       name     |-> Trim(SubSeq(trimmed, n + 2, Len(trimmed)))]

IngredientObject(parsed) ==
    JObj([name |-> JStr(parsed.name), quantity |-> JStr(parsed.quantity)])

\* ingredient.text || ingredient.name || ingredient['@value']
TextOf(x) == OrElse(Get(x, "text"), OrElse(Get(x, "name"), Get(x, "value")))

\* one element of recipeIngredient; .trim() of a value that is no string throws
IngredientThrows(x) ==
    x.t \in {"object", "array"} /\ Truthy(TextOf(x)) /\ TextOf(x).t # "string"

MapIngredient(x) ==
    IF x.t = "string" THEN IngredientObject(parseIngredientString(x.str))
    ELSE IF x.t \in {"object", "array"} /\ Truthy(TextOf(x))
    THEN IngredientObject(parseIngredientString(TextOf(x).str))
    ELSE IngredientObject([name |-> StringOf(x), quantity |-> <<>>])

\* structured-data-parser.ts parseIngredients (for a list no element of which throws)
parseIngredients(ingredientsList) ==
    IF ingredientsList.t # "array" \/ ingredientsList.arr = <<>> THEN <<>>
    ELSE LET mapped == [i \in 1..Len(ingredientsList.arr) |-> MapIngredient(ingredientsList.arr[i])]
         IN  Filter(mapped, [i \in 1..Len(mapped) |-> Len(Trim(mapped[i].obj.name.str)) > 0])

\* String.prototype.split(/\n+/)
RECURSIVE SplitLines(_, _)
SplitLines(s, cur) ==
    IF s = <<>> THEN <<cur>>
    ELSE IF Head(s) = "\n"
    THEN IF Len(s) >= 2 /\ s[2] = "\n"
         THEN SplitLines(Tail(s), cur)
         ELSE <<cur>> \o SplitLines(Tail(s), <<>>)
    ELSE SplitLines(Tail(s), Append(cur, Head(s)))

InstructionThrows(x) ==
    /\ x.t \in {"object", "array"}
    /\ \/ Truthy(Get(x, "text")) /\ Get(x, "text").t # "string"
       \/ ~Truthy(Get(x, "text")) /\ Truthy(Get(x, "name")) /\ Get(x, "name").t # "string"
       \/ /\ ~Truthy(Get(x, "text")) /\ ~Truthy(Get(x, "name"))
          /\ Truthy(Get(x, "value")) /\ Get(x, "value").t # "string"

MapInstruction(x) ==
    IF x.t = "string" THEN JStr(Trim(x.str))
    ELSE IF x.t \in {"object", "array"} /\ Truthy(TextOf(x)) THEN JStr(Trim(TextOf(x).str))
    ELSE JStr(Trim(StringOf(x)))

\* structured-data-parser.ts parseInstructions (for a list no element of which throws)
parseInstructions(instructionsList) ==
    IF instructionsList.t = "array"
    THEN LET mapped == [i \in 1..Len(instructionsList.arr) |-> MapInstruction(instructionsList.arr[i])]
         IN  Filter(mapped, [i \in 1..Len(mapped) |-> Len(mapped[i].str) > 0])
    ELSE IF instructionsList.t = "string"
    THEN LET steps == SplitLines(instructionsList.str, <<>>)
             mapped == [i \in 1..Len(steps) |-> JStr(Trim(steps[i]))]
         IN  Filter(mapped, [i \in 1..Len(mapped) |-> Len(mapped[i].str) > 0])
    ELSE <<>>

\* String(yieldValue).match(/\d+/): the first run of digits, or -1
FirstNumber(x) ==
    CASE x.t = "number" -> IF x.num < 0 THEN -x.num ELSE x.num
      [] x.t = "string" ->
            LET hits == { i \in DOMAIN x.str : x.str[i] \in NumTokens }
            IN  IF hits = {} THEN -1
                ELSE NumValue(x.str[CHOOSE i \in hits : \A j \in hits : i <= j])
      [] OTHER -> -1

recipeYieldServings(recipeYield) ==
    IF ~Truthy(recipeYield) THEN DefaultServings
    ELSE LET yieldValue == IF recipeYield.t = "array"
                           THEN (IF recipeYield.arr = <<>> THEN JUndef ELSE recipeYield.arr[1])
                           ELSE recipeYield
         IN  IF FirstNumber(yieldValue) >= 0 THEN FirstNumber(yieldValue) ELSE DefaultServings

\* transformSchemaOrgToRecipe without its checks for empty lists
MutTransformKeepsEmptyLists(schemaRecipe) ==
    LET title == OrElse(Get(schemaRecipe, "name"), Get(schemaRecipe, "headline"))
        ingredientsList  == OrElse(Get(schemaRecipe, "recipeIngredient"), JArr(<<>>))
        instructionsList == OrElse(Get(schemaRecipe, "recipeInstructions"), JArr(<<>>))
    IN  IF ~Truthy(title) THEN JNull
        ELSE JObj([title        |-> title,
                   description  |-> OrElse(Get(schemaRecipe, "description"), JStr(<<>>)),
                   servings     |-> JNum(recipeYieldServings(Get(schemaRecipe, "recipeYield"))),
                   ingredients  |-> JArr(parseIngredients(ingredientsList)),
                   instructions |-> JArr(parseInstructions(instructionsList))])

\* structured-data-parser.ts transformSchemaOrgToRecipe: the draft, or JNull
transformSchemaOrgToRecipe(schemaRecipe) ==
    LET title        == OrElse(Get(schemaRecipe, "name"), Get(schemaRecipe, "headline"))
        description  == OrElse(Get(schemaRecipe, "description"), JStr(<<>>))
        ingredientsList  == OrElse(Get(schemaRecipe, "recipeIngredient"), JArr(<<>>))
        instructionsList == OrElse(Get(schemaRecipe, "recipeInstructions"), JArr(<<>>))
        throws ==
            \/ ingredientsList.t = "array"
               /\ \E i \in DOMAIN ingredientsList.arr : IngredientThrows(ingredientsList.arr[i])
            \/ instructionsList.t = "array"
               /\ \E i \in DOMAIN instructionsList.arr : InstructionThrows(instructionsList.arr[i])
    IN  IF ~Truthy(title) THEN JNull
        ELSE IF throws THEN JNull
        ELSE IF parseIngredients(ingredientsList) = <<>> THEN JNull
        ELSE IF parseInstructions(instructionsList) = <<>> THEN JNull
        ELSE JObj([title        |-> title,
                   description  |-> description,
                   servings     |-> JNum(recipeYieldServings(Get(schemaRecipe, "recipeYield"))),
                   ingredients  |-> JArr(parseIngredients(ingredientsList)),
                   instructions |-> JArr(parseInstructions(instructionsList))])

IsRecipeType(x) == Get(x, "type") = JStr(<<"Recipe">>)

\* item['@graph'].find(g => g['@type'] === 'Recipe'): [throws, recipe]
FindInGraph(graph) ==
    IF graph.t # "array" THEN [throws |-> TRUE, recipe |-> JUndef]
    ELSE LET hits  == { i \in DOMAIN graph.arr : IsRecipeType(graph.arr[i]) }
             nulls == { i \in DOMAIN graph.arr : graph.arr[i].t \in {"null", "undefined"} }
             first == IF hits = {} THEN Len(graph.arr) + 1
                      ELSE CHOOSE i \in hits : \A j \in hits : i <= j
         IN  IF \E i \in nulls : i < first
             THEN [throws |-> TRUE, recipe |-> JUndef]
             ELSE [throws |-> FALSE,
                   recipe |-> IF hits = {} THEN JUndef ELSE graph.arr[first]]

\* the candidate record of one item of a block: [throws, recipe]
CandidateOf(item) ==
    IF item.t \in {"null", "undefined"} THEN [throws |-> TRUE, recipe |-> JUndef]
    ELSE IF IsRecipeType(item) THEN [throws |-> FALSE, recipe |-> item]
    ELSE IF Truthy(Get(item, "graph")) THEN FindInGraph(Get(item, "graph"))
    ELSE IF /\ Get(item, "type").t = "array"
            /\ \E i \in DOMAIN Get(item, "type").arr : Get(item, "type").arr[i] = JStr(<<"Recipe">>)
    THEN [throws |-> FALSE, recipe |-> item]
    ELSE [throws |-> FALSE, recipe |-> JUndef]

\* the inner loop over the items of one block: the draft, or JNull when the
\* block yields none (or throws part-way)
RECURSIVE ScanItems(_)
ScanItems(items) ==
    IF items = <<>> THEN JNull
    ELSE LET c == CandidateOf(Head(items))
         IN  IF c.throws THEN JNull
             ELSE IF Truthy(c.recipe) /\ transformSchemaOrgToRecipe(c.recipe) # JNull
             THEN transformSchemaOrgToRecipe(c.recipe)
             ELSE ScanItems(Tail(items))

ScanScript(script) ==
    IF script.kind # "json" THEN JNull
    ELSE ScanItems(IF script.data.t = "array" THEN script.data.arr ELSE <<script.data>>)

RECURSIVE ScanScripts(_)
ScanScripts(scripts) ==
    IF scripts = <<>> THEN JNull
    ELSE IF ScanScript(Head(scripts).text) # JNull THEN ScanScript(Head(scripts).text)
    ELSE ScanScripts(Tail(scripts))

\* $('script[type="application/ld+json"]')
JsonLdScripts(doc) ==
    Filter(doc, [i \in 1..Len(doc) |->
                    doc[i].tag = "script" /\ doc[i].attr = "application/ld+json"])

\* structured-data-parser.ts parseJsonLdRecipe
parseJsonLdRecipe(doc) == ScanScripts(JsonLdScripts(doc))

\* .attr('content') of the first element matching, <<>> when there is none
FirstContent(doc, tag, attr) ==
    LET hits == { i \in DOMAIN doc : doc[i].tag = tag /\ doc[i].attr = attr }
    IN  IF hits = {} THEN <<>> ELSE doc[CHOOSE i \in hits : \A j \in hits : i <= j].content

\* $('title').text(): the texts of all title elements, concatenated
RECURSIVE TitleText(_)
TitleText(doc) ==
    IF doc = <<>> THEN <<>>
    ELSE (IF Head(doc).tag = "title" THEN Head(doc).content ELSE <<>>) \o TitleText(Tail(doc))

StrOr(a, b) == IF a # <<>> THEN a ELSE b

\* structured-data-parser.ts parseOpenGraphTags
parseOpenGraphTags(doc) ==
    LET title == StrOr(FirstContent(doc, "meta", "property=og:title"),
                       StrOr(FirstContent(doc, "meta", "name=og:title"), TitleText(doc)))
        description == StrOr(FirstContent(doc, "meta", "property=og:description"),
                             StrOr(FirstContent(doc, "meta", "name=og:description"),
                                   FirstContent(doc, "meta", "name=description")))
    IN  IF title # <<>> /\ Len(Trim(title)) > 0
        THEN JObj([title       |-> JStr(Trim(title)),
                   description |-> JStr(Trim(description)),
                   servings    |-> JNum(DefaultServings)])
        ELSE JNull

\* structured-data-parser.ts fetchHtmlContent: the completion for the raw
\* outcome of fetch(): a response (ok or not), or a failure of fetch itself
fetchHtmlContent(raw) ==
    IF raw.kind = "response"
    THEN IF raw.ok
         THEN Fulfilled(raw.body)
         ELSE Rejected(RecipeExtractionError(Msg("HTTP status"), "NETWORK_ERROR"))
    ELSE Rejected(RecipeExtractionErrorCausedBy(Msg("Failed to fetch URL"), "NETWORK_ERROR",
                                                OtherError("TypeError", Msg("fetch failed"))))

(***************************************************************************)
(* ai.ts: the pure parts.                                                  *)
(***************************************************************************)
MinTextLength       == 100
MinTranscriptLength == 100

\* the text of the document: scripts, styles and tags replaced by a blank
RECURSIVE RawText(_)
RawText(doc) ==
    IF doc = <<>> THEN <<>>
    ELSE <<" ">> \o (IF Head(doc).tag \in {"title", "p"} THEN Head(doc).content ELSE <<>>)
         \o <<" ">> \o RawText(Tail(doc))

\* .replace(/\s+/g, ' '): of every run of white space all but the last
\* character are dropped, and that one becomes a blank
CollapseSpaces(s) ==
    LET n       == Len(s)
        dropped == { i \in 1..n : IsSpace(s[i]) /\ i < n /\ IsSpace(s[i + 1]) }
        kept    == (1..n) \ dropped
        at(k)   == CHOOSE i \in kept : i - Cardinality({ j \in dropped : j < i }) = k
    IN  [k \in 1..(n - Cardinality(dropped)) |-> IF IsSpace(s[at(k)]) THEN " " ELSE s[at(k)]]

\* ai.ts extractTextFromHtml
extractTextFromHtml(doc) ==
    LET text == Trim(CollapseSpaces(RawText(doc)))
    IN  IF Len(text) > MinTextLength THEN JStr(text) ELSE JNull

\* the text of an AI response that is to be JSON: undefined, or
\* [fenced, body] with body empty, malformed or JSON text
ResponseText(fenced, body) == [t |-> "text", fenced |-> fenced, body |-> body]

\* ai.ts parseJsonResponse: the completion
parseJsonResponse(jsonString) ==
    IF jsonString.t = "undefined"
    THEN Rejected(PlainError(Msg("AI response was empty or undefined.")))
    ELSE IF jsonString.body.kind = "empty"
    THEN Rejected(PlainError(Msg("AI response was empty after cleaning markdown.")))
    ELSE IF jsonString.body.kind = "malformed"
    THEN Rejected(OtherError("SyntaxError", Msg("Unexpected token")))
    ELSE Fulfilled(jsonString.body.data)

ErrorSentinel == <<"E", "R", "R", "O", "R">>

\* the sentinel compared as it stands, untrimmed and in its own case
MutPageTextExactSentinel(text) ==
    IF ~Truthy(text) \/ text.str = ErrorSentinel
    THEN Fulfilled(JNull)
    ELSE Fulfilled(text)

\* the closure of getTextContentFromUrlWithAI, after the await
pageTextOf(text) ==
    IF ~Truthy(text) \/ ToUpperCase(Trim(text.str)) = ErrorSentinel
    THEN Fulfilled(JNull)
    ELSE Fulfilled(text)

\* the length measured on the response as it came, before trimming
MutTranscriptRawLength(responseText) ==
    LET text == IF responseText.t = "string" THEN JStr(Trim(responseText.str)) ELSE JUndef
    IN  IF ~Truthy(text) \/ ToUpperCase(text.str) = ErrorSentinel
           \/ Len(responseText.str) < MinTranscriptLength
        THEN Fulfilled(JNull)
        ELSE Fulfilled(text)

\* the closure of getTranscriptFromYoutubeUrl, after the await
transcriptOf(responseText) ==
    LET text == IF responseText.t = "string" THEN JStr(Trim(responseText.str)) ELSE JUndef
    IN  IF ~Truthy(text) \/ ToUpperCase(text.str) = ErrorSentinel
           \/ Len(text.str) < MinTranscriptLength
        THEN Fulfilled(JNull)
        ELSE Fulfilled(text)

\* the withRetry call sites of ai.ts: attempts, deadline message, and what
\* the closure does with the response
MutMaxRetriesOf(s) == DefaultMaxRetries

MaxRetriesOf(s) ==
    CASE s = "image" -> 2 [] s = "structure" -> 2 [] s = "transcript" -> 2 [] s = "pagetext" -> 2

TimeoutMessageOf(s) ==
    CASE s = "image"      -> Msg("Image analysis timeout")
      [] s = "structure"  -> Msg("Recipe structuring timeout")
      [] s = "transcript" -> Msg("YouTube transcript extraction timeout")
      [] s = "pagetext"   -> Msg("AI extraction timeout")

\* one invocation of the closure at site s, `first` being the first of the
\* AI call and the deadline to finish
FnCompletion(s, first) ==
    LET c == withTimeout(first, TimeoutMessageOf(s))
    IN  IF c.k = "throw" THEN c
        ELSE CASE s \in {"image", "structure"} -> parseJsonResponse(c.v.text)
               [] s = "transcript" -> transcriptOf(c.v.text)
               [] s = "pagetext"   -> pageTextOf(c.v.text)

\* the draft goes on without validateRecipeData
MutSanitizeOnly(data) == sanitizeRecipeData(data)

\* sanitizeRecipeData, then validateRecipeData
SanitizeAndValidate(data) ==
    LET sanitized == sanitizeRecipeData(data)
    IN  IF sanitized.k = "throw" THEN sanitized ELSE validateRecipeData(sanitized.v)

\* { ...validated, imageUrls: finalImageUrls }
WithImageUrls(validated, finalImageUrls) ==
    JObj([validated.obj EXCEPT !.imageUrls = JArr(finalImageUrls)])

StructureFailedMessage == Msg("Failed to structure recipe data")

NoTranscriptMessage ==
    Msg("Failed to retrieve transcript from YouTube video. The video may not have captions or may not contain a recipe.")

NoRecipeMessage ==
    Msg("No recipe found on this page. Please make sure the URL contains a recipe.")

\* the catch block of structureTextToRecipe
structureCatch(error) ==
    RecipeExtractionErrorCausedBy(StructureFailedMessage, "PARSING_ERROR", error)

\* the catch block of generateRecipeFromUrl and generateRecipeFromYoutubeUrl
MutOrchestratorCatchGeneric(error) ==
    IF InstanceOfRecipeExtractionError(error)
    THEN PlainError(Msg("Failed to extract recipe from URL"))
    ELSE error

\* the catch block rethrows the classified error as it is
MutOrchestratorCatchRethrows(error) == error

orchestratorCatch(error) ==
    IF InstanceOfRecipeExtractionError(error) THEN PlainError(error.msg) ELSE error

\* the catch block of generateRecipeFromImage
imageCatch(error) ==
    IF InstanceOfRecipeExtractionError(error)
    THEN PlainError(error.msg)
    ELSE PlainError(Msg("Failed to analyze image and generate recipe"))

\* extractRecipeFromUrl after the fetch settled with completion c: which
\* tier comes next
MutTierFallsThroughOnFetchError(c) ==
    IF c.k = "throw" THEN "tier3"
    ELSE IF parseJsonLdRecipe(c.v) # JNull THEN "tier1"
    ELSE IF Truthy(parseOpenGraphTags(c.v)) /\ Truthy(Get(parseOpenGraphTags(c.v), "title"))
            /\ Truthy(extractTextFromHtml(c.v))
    THEN "tier2"
    ELSE "tier3"

\* Tier 1 keeps a JSON-LD draft only when it passes validation
MutTierValidatesJsonLd(c) ==
    IF c.k = "throw" THEN "rethrow"
    ELSE IF parseJsonLdRecipe(c.v) # JNull /\ SanitizeAndValidate(parseJsonLdRecipe(c.v)).k = "value"
    THEN "tier1"
    ELSE IF Truthy(parseOpenGraphTags(c.v)) /\ Truthy(Get(parseOpenGraphTags(c.v), "title"))
            /\ Truthy(extractTextFromHtml(c.v))
    THEN "tier2"
    ELSE "tier3"

MutTierIgnoresJsonLd(c) ==
    IF c.k = "throw" THEN "rethrow"
    ELSE IF Truthy(parseOpenGraphTags(c.v)) /\ Truthy(Get(parseOpenGraphTags(c.v), "title"))
            /\ Truthy(extractTextFromHtml(c.v))
    THEN "tier2"
    ELSE "tier3"

TierAfterFetch(c) ==
    IF c.k = "throw" THEN "rethrow"
    ELSE IF parseJsonLdRecipe(c.v) # JNull THEN "tier1"
    ELSE IF Truthy(parseOpenGraphTags(c.v)) /\ Truthy(Get(parseOpenGraphTags(c.v), "title"))
            /\ Truthy(extractTextFromHtml(c.v))
    THEN "tier2"
    ELSE "tier3"

(***************************************************************************)
(* SpecUtil: one call withRetry(() => withTimeout(op, ms, errorMessage),   *)
(* maxRetries, initialDelay).  Time is abstracted: an armed timer may fire *)
(* at any moment, an operation may settle at any moment or never.  The     *)
(* reaction of the awaiting withRetry to the settlement of the race runs   *)
(* in the same step (a microtask: no timer or network event comes          *)
(* between).  Nothing cancels an operation or clears a timer, so both      *)
(* may still settle or fire after the race is decided.                     *)
(***************************************************************************)

InitialDelays == {DefaultInitialDelay, 2 * DefaultInitialDelay}

TimeoutMessages == {Msg("Request timeout"), Msg("Image analysis timeout")}

UtilValues == {"value"}

UtilErrors ==
    { PlainError(Msg("fetch failed")),
      RecipeExtractionError(Msg("HTTP 503"), "NETWORK_ERROR"),
      RecipeExtractionError(Msg("No recipe found"), "NO_RECIPE_FOUND"),
      RecipeExtractionError(Msg("Recipe validation failed"), "VALIDATION_ERROR") }

NoEvent    == [by |-> "none"]
TimerEvent == [by |-> "timer"]
OpEvent(c) == [by |-> "op", c |-> c]

\* a fresh invocation of fn: the operation is started, the timer armed
NewRace == [op |-> Pending, timer |-> "armed", race |-> Pending,
            first |-> NoEvent, seen |-> NoCompletion]

\* no recipe is stored and no request on it is running
NoRows == [exists |-> FALSE, imageUrls |-> <<>>, ingredients |-> <<>>, instructions |-> <<>>]

InitUtil ==
    /\ maxRetries = DefaultMaxRetries
    /\ initialDelay = DefaultInitialDelay
    /\ errorMessage = Msg("Request timeout")
    /\ attempt = 0
    /\ lastError = UndefinedError
    /\ races = <<>>
    /\ delays = <<>>
    /\ upc = "idle"
    /\ outcome = NoCompletion
    /\ db = NoRows
    /\ handlers = <<>>

\* for (let attempt = 0; attempt < maxRetries; attempt++) { try { return await fn() ...
\* and the trailing `throw lastError!`
LoopHead(att, max, err, rs) ==
    IF att < max
    THEN /\ races' = Append(rs, NewRace)
         /\ upc' = "attempt"
         /\ outcome' = outcome
    ELSE /\ races' = rs
         /\ upc' = "thrown"
         /\ outcome' = Rejected(err)

CallWithRetry(max, delay, message) ==
    /\ upc = "idle"
    /\ maxRetries' = max
    /\ initialDelay' = delay
    /\ errorMessage' = message
    /\ attempt' = 0
    /\ LoopHead(0, max, lastError, races)
    /\ UNCHANGED <<lastError, delays>>
    /\ UNCHANGED reqVars
    /\ UNCHANGED dbVars

\* the race of invocation i is handed the settlement of one of its racers;
\* if that decides the race, the awaiting withRetry goes on
Settle(i, ev, rec) ==
    LET r          == races[i]
        decided    == r.race.k = "pending"
        newRace    == RaceSettle(r.race, withTimeout(ev, errorMessage))
        rs         == [races EXCEPT ![i] =
                          [rec EXCEPT !.race  = newRace,
                                      !.first = IF decided THEN ev ELSE @,
                                      !.seen  = IF decided THEN newRace ELSE @]]
    IN  /\ races' = rs
        /\ IF ~decided
           THEN UNCHANGED <<attempt, lastError, delays, upc, outcome>>
           ELSE IF newRace.k = "value"
           THEN /\ upc' = "returned"
                /\ outcome' = newRace
                /\ UNCHANGED <<attempt, lastError, delays>>
           ELSE /\ lastError' = newRace.e
                /\ attempt' = attempt
                /\ IF withRetryCatch(newRace.e, attempt, maxRetries) = "throw"
                   THEN /\ upc' = "thrown"
                        /\ outcome' = Rejected(newRace.e)
                        /\ delays' = delays
                   ELSE /\ upc' = "backoff"
                        /\ outcome' = outcome
                        /\ delays' = Append(delays, BackoffDelay(initialDelay, attempt))
        /\ UNCHANGED <<maxRetries, initialDelay, errorMessage>>
        /\ UNCHANGED reqVars

OpResolves(i, v) ==
    /\ i \in DOMAIN races
    /\ races[i].op.k = "pending"
    /\ Settle(i, OpEvent(Fulfilled(v)), [races[i] EXCEPT !.op = Fulfilled(v)])
    /\ UNCHANGED dbVars

OpRejects(i, e) ==
    /\ i \in DOMAIN races
    /\ races[i].op.k = "pending"
    /\ Settle(i, OpEvent(Rejected(e)), [races[i] EXCEPT !.op = Rejected(e)])
    /\ UNCHANGED dbVars

TimerFires(i) ==
    /\ i \in DOMAIN races
    /\ races[i].timer = "armed"
    /\ Settle(i, TimerEvent, [races[i] EXCEPT !.timer = "fired"])
    /\ UNCHANGED dbVars

\* await new Promise(resolve => setTimeout(resolve, delay)); then attempt++
BackoffElapsed ==
    /\ upc = "backoff"
    /\ attempt' = attempt + 1
    /\ LoopHead(attempt + 1, maxRetries, lastError, races)
    /\ UNCHANGED <<maxRetries, initialDelay, errorMessage, lastError, delays>>
    /\ UNCHANGED reqVars
    /\ UNCHANGED dbVars


(***************************************************************************)
(* One request to POST /api/recipes/generate.  The call stack of the       *)
(* request is `stack`, its frames [fn, pc]; `ret` is the completion the    *)
(* callee on top handed back.  `log` records, in order, the network and AI *)
(* calls made and what extractRecipeFromUrl found.                         *)
(***************************************************************************)
TomatoSoup   == <<"T", "o", "m", "a", "t", "o", " ", "S", "o", "u", "p">>
ADescription == <<"W", "a", "r", "m">>

PageTitles       == {TomatoSoup, <<" ">> \o TomatoSoup \o <<" ">>, Rep("a", MaxTitleLength + 1)}
PageDescriptions == {ADescription, <<>>}

ThreeIngredients ==
    JArr(<<JStr(<<"2", " ", "cups", " ", "tomatoes">>), JStr(<<"1", " ", "onion">>),
           JStr(<<"salt">>)>>)

FourSteps ==
    JArr(<<JStr(<<"Chop">>), JStr(<<"Fry">>), JStr(<<"Simmer">>), JStr(<<"Blend">>)>>)

\* a schema.org Recipe with three ingredients and four steps
SchemaRecipe(title, description) ==
    JObj([type               |-> JStr(<<"Recipe">>),
          name               |-> JStr(title),
          description        |-> JStr(description),
          recipeYield        |-> JStr(<<"4", " ", "servings">>),
          recipeIngredient   |-> ThreeIngredients,
          recipeInstructions |-> FourSteps])

RecipePage(title, description) ==
    <<Element("title", "", title),
      Script("application/ld+json", JsonText(SchemaRecipe(title, description)))>>

RecipePages == { RecipePage(t, d) : t \in PageTitles, d \in PageDescriptions }

LongText == Rep("x", MinTextLength + 1)

\* no usable JSON-LD, a title, and enough text
ArticlePage ==
    <<Element("meta", "property=og:title", TomatoSoup),
      Script("application/ld+json", MalformedText),
      Element("p", "", LongText)>>

\* a Recipe without steps, a title, and too little text
ShortPage ==
    <<Element("title", "", TomatoSoup),
      Script("application/ld+json",
              JsonText(JObj([type |-> JStr(<<"Recipe">>), name |-> JStr(TomatoSoup),
                             recipeIngredient |-> ThreeIngredients]))),
      Element("p", "", <<"H", "i">>)>>

\* no JSON-LD and no title
BarePage == <<Element("p", "", LongText)>>

Pages == RecipePages \cup {ArticlePage, ShortPage, BarePage}

\* what fetch() can do
RawFetches ==
    { [kind |-> "response", ok |-> TRUE, body |-> p] : p \in Pages }
    \cup { [kind |-> "response", ok |-> FALSE, body |-> <<>>],
           [kind |-> "failure", ok |-> FALSE, body |-> <<>>] }

GoodIngredient == JObj([name |-> JStr(<<"tomatoes">>), quantity |-> JStr(<<"2", " ", "cups">>)])

GoodDraft ==
    JObj([title        |-> JStr(TomatoSoup),
          description  |-> JStr(ADescription),
          servings     |-> JNum(4),
          ingredients  |-> JArr(<<GoodIngredient>>),
          instructions |-> JArr(<<JStr(<<"Simmer">>)>>)])

\* acceptable once sanitized
MessyDraft ==
    JObj([title        |-> JStr(<<" ">> \o TomatoSoup),
          description  |-> JStr(ADescription),
          servings     |-> JStr(<<"6">>),
          ingredients  |-> JArr(<<GoodIngredient,
                                  JObj([name |-> JStr(<<" ">>), quantity |-> JStr(<<>>)])>>),
          instructions |-> JArr(<<JStr(<<"Simmer">>), JStr(<<" ">>)>>)])

EmptyDraft ==
    JObj([title |-> JStr(<<>>), ingredients |-> JArr(<<>>), instructions |-> JArr(<<>>)])

AiDrafts == {GoodDraft, MessyDraft, EmptyDraft, JNull}

RecipeProse == <<"S", "i", "m", "m", "e", "r">>

\* the responses of the model at each withRetry site
JsonResponses ==
    { [text |-> ResponseText(f, JsonText(d))] : f \in BOOLEAN, d \in AiDrafts }
    \cup { [text |-> ResponseText(FALSE, MalformedText)], [text |-> JUndef] }

PageTextResponses ==
    { [text |-> JStr(ErrorSentinel)], [text |-> JStr(<<" ", "e", "r", "r", "o", "r", "\n">>)],
      [text |-> JStr(RecipeProse)], [text |-> JUndef] }

TranscriptResponses ==
    { [text |-> JStr(ErrorSentinel)], [text |-> JStr(Rep("t", MinTranscriptLength - 1))],
      [text |-> JStr(Rep("t", MinTranscriptLength))] }

ResponsesOf(s) ==
    CASE s \in {"image", "structure"} -> JsonResponses
      [] s = "transcript" -> TranscriptResponses
      [] s = "pagetext"   -> PageTextResponses

Sites == {"image", "structure", "transcript", "pagetext"}

ApiError == PlainError(Msg("AI service unavailable"))

\* how one AI call can end first: a response, a rejection, or its deadline
AiEvents(s) ==
    { OpEvent(Fulfilled(r)) : r \in ResponsesOf(s) }
    \cup { OpEvent(Rejected(ApiError)), TimerEvent }

\* Every way one attempt of some AI call can settle.
AttemptEvents == UNION { AiEvents(s) : s \in Sites }

\* what the image model answers: an image part, none, or a failure
ImageModelCompletions ==
    { Fulfilled([inlineData |-> JStr(<<"iVBOR">>)]), Fulfilled([inlineData |-> JUndef]),
      Rejected(ApiError) }

UrlRecipe  == <<"https://", "example.com", "/soup">>
UrlBare    == <<"example.com", "/soup">>
UrlInvalid == <<"exa mple.com">>
UrlWatch   == <<"https://", "www.youtube.com", "/watch?v=", "dQw4w9WgXcQ">>
UrlChannel == <<"https://", "www.youtube.com", "/channel">>

RequestUrls == {UrlRecipe, UrlBare, UrlInvalid, UrlWatch, UrlChannel}

Bodies ==
    { [type |-> "text", content |-> RecipeProse], [type |-> "image", content |-> <<"/9j/4AAQ">>],
      [type |-> "video", content |-> <<>>] }
    \cup { [type |-> "url", content |-> u] : u \in RequestUrls }

NoRequest  == [type |-> "none", content |-> <<>>]
NoPage     == <<>>
NoDraft    == JUndef
NoResponse == [status |-> 0]

InitReq ==
    /\ stack = <<>>
    /\ ret = NoCompletion
    /\ req = NoRequest
    /\ site = "none"
    /\ html = NoPage
    /\ textArg = JUndef
    /\ draft = NoDraft
    /\ log = <<>>
    /\ response = NoResponse

Init == InitUtil /\ InitReq

NextUtil ==
    \/ \E max \in 0..MaxRetriesBound, delay \in InitialDelays, message \in TimeoutMessages :
          CallWithRetry(max, delay, message)
    \/ \E i \in 1..MaxRetriesBound + 1, v \in UtilValues : OpResolves(i, v)
    \/ \E i \in 1..MaxRetriesBound + 1, e \in UtilErrors : OpRejects(i, e)
    \/ \E i \in 1..MaxRetriesBound + 1 : TimerFires(i)
    \/ BackoffElapsed

SpecUtil == Init /\ [][NextUtil]_vars

(***************************************************************************)
(* The request pipeline.                                                   *)
(***************************************************************************)
harnessVars == <<initialDelay, errorMessage, races, upc, outcome>>
retryVars   == <<maxRetries, attempt, lastError, delays>>

Frame(fn, pc) == [fn |-> fn, pc |-> pc]

Top == stack[Len(stack)]

At(fn, pc) == stack # <<>> /\ Top = Frame(fn, pc)

\* the callee awaited by the top frame has completed
Returned == ret.k # "none"

ReplaceTop(pc) == [stack EXCEPT ![Len(stack)] = Frame(Top.fn, pc)]

Popped == SubSeq(stack, 1, Len(stack) - 1)

\* the top frame completes with c
Return(c) == stack' = Popped /\ ret' = c

\* the top frame awaits callee(...) and goes on at pc
Call(pc, callee) ==
    /\ stack' = Append(ReplaceTop(pc), Frame(callee, "start"))
    /\ ret' = NoCompletion

\* the top frame awaits withRetry(fn, n) of site s and goes on at pc
StartRetry(pc, s) ==
    /\ stack' = Append(ReplaceTop(pc), Frame("withRetry", "attempt"))
    /\ ret' = NoCompletion
    /\ site' = s
    /\ maxRetries' = MaxRetriesOf(s)
    /\ attempt' = 0
    /\ lastError' = UndefinedError
    /\ delays' = <<>>

\* the tier extractRecipeFromUrl is in
CurrentTier ==
    IF \E i \in DOMAIN stack : stack[i] = Frame("extractRecipeFromUrl", "tier2") THEN "tier2"
    ELSE IF \E i \in DOMAIN stack : stack[i] = Frame("extractRecipeFromUrl", "tier3") THEN "tier3"
    ELSE "none"

Event(ev, got, out) == [ev |-> ev, tier |-> CurrentTier, got |-> got, out |-> out]

\* what came back from the AI call
KindOf(first) ==
    IF first.by = "timer" THEN "deadline"
    ELSE IF first.c.k = "throw" THEN "rejected"
    ELSE LET text == first.c.v.text
         IN  CASE text.t = "undefined" -> "no-text"
               [] text.t = "string"    ->
                     IF text.str = ErrorSentinel THEN "ERROR"
                     ELSE IF ToUpperCase(Trim(text.str)) = ErrorSentinel THEN "error-padded"
                     ELSE "prose"
               [] OTHER                -> text.body.kind

\* what the closure made of it
OutOf(c) ==
    IF c.k = "value" THEN (IF Truthy(c.v) THEN "value" ELSE "null")
    ELSE IF c.e.code = "TIMEOUT" THEN "timeout"
    ELSE "error"

\* route.ts POST: the body is read and the generator for its type awaited
Post(body) ==
    /\ req = NoRequest
    /\ stack = <<>>
    /\ req' = body
    /\ ret' = NoCompletion
    /\ CASE body.type = "text" ->
              /\ stack' = <<Frame("POST", "await"), Frame("structureTextToRecipe", "start")>>
              /\ textArg' = JStr(body.content)
              /\ response' = response
         [] body.type = "url" ->
              /\ stack' = <<Frame("POST", "await"),
                            Frame(IF IncludesYoutube(body.content)
                                  THEN "generateRecipeFromYoutubeUrl"
                                  ELSE "generateRecipeFromUrl", "start")>>
              /\ UNCHANGED <<textArg, response>>
         [] body.type = "image" ->
              /\ stack' = <<Frame("POST", "await"), Frame("generateRecipeFromImage", "start")>>
              /\ UNCHANGED <<textArg, response>>
         [] OTHER ->
              /\ stack' = <<>>
              /\ response' = [status |-> 400, error |-> Msg("Invalid generation type")]
              /\ textArg' = textArg
    /\ UNCHANGED <<site, html, draft, log>>
    /\ UNCHANGED utilVars
    /\ UNCHANGED dbVars

\* { ...recipeData, sourceUrl: content }
WithSourceUrl(recipeData, content) ==
    JObj([recipeData.obj EXCEPT !.sourceUrl = JStr(content)])

\* route.ts POST: the generator completed; the response is sent
PostResponds ==
    /\ At("POST", "await")
    /\ Returned
    /\ stack' = <<>>
    /\ ret' = NoCompletion
    /\ response' =
          IF ret.k = "value"
          THEN [status |-> 200,
                body   |-> IF req.type = "url" THEN WithSourceUrl(ret.v, req.content) ELSE ret.v]
          ELSE [status |-> 500,
                error  |-> IF ret.e.cls = "undefined"
                           THEN Msg("Failed to generate recipe") ELSE ret.e.msg]
    /\ UNCHANGED <<req, site, html, textArg, draft, log>>
    /\ UNCHANGED utilVars
    /\ UNCHANGED dbVars

\* structureTextToRecipe: up to the await of withRetry
StructureStart ==
    /\ At("structureTextToRecipe", "start")
    /\ StartRetry("await", "structure")
    /\ UNCHANGED <<req, html, textArg, draft, log, response>>
    /\ UNCHANGED harnessVars
    /\ UNCHANGED dbVars

\* structureTextToRecipe: the result is returned, any error re-labelled
StructureDone ==
    /\ At("structureTextToRecipe", "await")
    /\ Returned
    /\ Return(IF ret.k = "value" THEN ret ELSE Rejected(structureCatch(ret.e)))
    /\ UNCHANGED <<req, site, html, textArg, draft, log, response>>
    /\ UNCHANGED utilVars
    /\ UNCHANGED dbVars

\* getTextContentFromUrlWithAI: up to the await of withRetry
PageTextStart ==
    /\ At("getTextContentFromUrlWithAI", "start")
    /\ StartRetry("text", "pagetext")
    /\ UNCHANGED <<req, html, textArg, draft, log, response>>
    /\ UNCHANGED harnessVars
    /\ UNCHANGED dbVars

\* getTextContentFromUrlWithAI: the text came back, or the call failed
PageTextDone ==
    /\ At("getTextContentFromUrlWithAI", "text")
    /\ Returned
    /\ IF ret.k = "throw" \/ ~Truthy(ret.v)
       THEN Return(Fulfilled(JNull)) /\ textArg' = textArg
       ELSE Call("structure", "structureTextToRecipe") /\ textArg' = ret.v
    /\ UNCHANGED <<req, site, html, draft, log, response>>
    /\ UNCHANGED utilVars
    /\ UNCHANGED dbVars

\* getTextContentFromUrlWithAI: structureTextToRecipe completed
PageTextStructured ==
    /\ At("getTextContentFromUrlWithAI", "structure")
    /\ Returned
    /\ Return(IF ret.k = "value" THEN ret ELSE Fulfilled(JNull))
    /\ UNCHANGED <<req, site, html, textArg, draft, log, response>>
    /\ UNCHANGED utilVars
    /\ UNCHANGED dbVars

\* extractRecipeFromUrl: normalizeUrl, then the fetch is started
ExtractStart ==
    /\ At("extractRecipeFromUrl", "start")
    /\ IF normalizeUrl(req.content).k = "throw"
       THEN Return(normalizeUrl(req.content))
       ELSE stack' = ReplaceTop("fetch") /\ ret' = ret
    /\ UNCHANGED <<req, site, html, textArg, draft, log, response>>
    /\ UNCHANGED utilVars
    /\ UNCHANGED dbVars

\* extractRecipeFromUrl: the fetch (or its deadline) settled; Tier 1, and
\* the choice of the tier after it
FetchSettles(first) ==
    /\ At("extractRecipeFromUrl", "fetch")
    /\ LET c    == withTimeout(first, Msg("Timeout fetching webpage"))
           tier == TierAfterFetch(c)
       IN  /\ html' = IF c.k = "value" THEN c.v ELSE html
           /\ log' = log
                \o <<Event("fetch", "-", IF c.k = "value" THEN "value" ELSE OutOf(c))>>
                \o (IF c.k = "value"
                    THEN <<Event("jsonld", "-",
                                 IF parseJsonLdRecipe(c.v) # JNull THEN "found" ELSE "not-found")>>
                    ELSE <<>>)
                \o (IF c.k = "value" /\ tier = "tier3"
                    THEN <<Event("tier2", "-", "skipped")>> ELSE <<>>)
           /\ CASE tier = "rethrow" -> Return(c) /\ textArg' = textArg
                [] tier = "tier1"   -> Return(Fulfilled(parseJsonLdRecipe(c.v))) /\ textArg' = textArg
                [] tier = "tier2"   -> /\ Call("tier2", "getTextContentFromUrlWithAI")
                                       /\ textArg' = extractTextFromHtml(c.v)
                [] tier = "tier3"   -> /\ Call("tier3", "getTextContentFromUrlWithAI")
                                       /\ textArg' = JUndef
    /\ UNCHANGED <<req, site, draft, response>>
    /\ UNCHANGED utilVars
    /\ UNCHANGED dbVars

\* extractRecipeFromUrl: Tier 2 completed
Tier2Done ==
    /\ At("extractRecipeFromUrl", "tier2")
    /\ Returned
    /\ IF Truthy(ret.v)
       THEN Return(ret) /\ UNCHANGED <<textArg, log>>
       ELSE /\ Call("tier3", "getTextContentFromUrlWithAI")
            /\ textArg' = JUndef
            /\ log' = Append(log, Event("tier2", "-", "no-draft"))
    /\ UNCHANGED <<req, site, html, draft, response>>
    /\ UNCHANGED utilVars
    /\ UNCHANGED dbVars

\* extractRecipeFromUrl: Tier 3 completed
Tier3Done ==
    /\ At("extractRecipeFromUrl", "tier3")
    /\ Returned
    /\ IF Truthy(ret.v)
       THEN Return(ret)
       ELSE Return(Rejected(RecipeExtractionError(NoRecipeMessage, "NO_RECIPE_FOUND")))
    /\ UNCHANGED <<req, site, html, textArg, draft, log, response>>
    /\ UNCHANGED utilVars
    /\ UNCHANGED dbVars

\* generateRecipeFromUrl: extractRecipeFromUrl is awaited
UrlStart ==
    /\ At("generateRecipeFromUrl", "start")
    /\ Call("extract", "extractRecipeFromUrl")
    /\ UNCHANGED <<req, site, html, textArg, draft, log, response>>
    /\ UNCHANGED utilVars
    /\ UNCHANGED dbVars

\* generateRecipeFromUrl: the draft is sanitized and validated, then the
\* image generation awaited; errors go through the catch block
UrlExtracted ==
    /\ At("generateRecipeFromUrl", "extract")
    /\ Returned
    /\ IF ret.k = "throw"
       THEN Return(Rejected(orchestratorCatch(ret.e))) /\ draft' = draft
       ELSE IF ~Truthy(ret.v)
       THEN /\ Return(Rejected(orchestratorCatch(
                        RecipeExtractionError(Msg("Failed to extract recipe from URL"), "NO_RECIPE_FOUND"))))
            /\ draft' = draft
       ELSE IF SanitizeAndValidate(ret.v).k = "throw"
       THEN Return(Rejected(orchestratorCatch(SanitizeAndValidate(ret.v).e))) /\ draft' = draft
       ELSE Call("image", "generateImageForRecipe") /\ draft' = SanitizeAndValidate(ret.v).v
    /\ UNCHANGED <<req, site, html, textArg, log, response>>
    /\ UNCHANGED utilVars
    /\ UNCHANGED dbVars

\* generateRecipeFromUrl: the draft is returned with the generated image
UrlImaged ==
    /\ At("generateRecipeFromUrl", "image")
    /\ Returned
    /\ Return(Fulfilled(WithImageUrls(draft, IF Truthy(ret.v) THEN <<ret.v>> ELSE <<>>)))
    /\ UNCHANGED <<req, site, html, textArg, draft, log, response>>
    /\ UNCHANGED utilVars
    /\ UNCHANGED dbVars

DataUrl(data) == <<"data:", "image/png;base64,">> \o data

\* generateImageForRecipe: one call of the image model, no deadline; the
\* data URL of the first image part, null otherwise
GenerateImage(result) ==
    /\ At("generateImageForRecipe", "start")
    /\ log' = Append(log, Event("generate-image", "-",
                                IF result.k = "throw" THEN "error"
                                ELSE IF Truthy(result.v.inlineData) THEN "value" ELSE "null"))
    /\ Return(IF result.k = "value" /\ Truthy(result.v.inlineData)
              THEN Fulfilled(JStr(DataUrl(result.v.inlineData.str)))
              ELSE Fulfilled(JNull))
    /\ UNCHANGED <<req, site, html, textArg, draft, response>>
    /\ UNCHANGED utilVars
    /\ UNCHANGED dbVars

\* getTranscriptFromYoutubeUrl: up to the await of withRetry
TranscriptStart ==
    /\ At("getTranscriptFromYoutubeUrl", "start")
    /\ StartRetry("await", "transcript")
    /\ UNCHANGED <<req, html, textArg, draft, log, response>>
    /\ UNCHANGED harnessVars
    /\ UNCHANGED dbVars

\* getTranscriptFromYoutubeUrl: the transcript, or null when the call failed
TranscriptDone ==
    /\ At("getTranscriptFromYoutubeUrl", "await")
    /\ Returned
    /\ Return(IF ret.k = "value" THEN ret ELSE Fulfilled(JNull))
    /\ UNCHANGED <<req, site, html, textArg, draft, log, response>>
    /\ UNCHANGED utilVars
    /\ UNCHANGED dbVars

\* generateRecipeFromYoutubeUrl: the transcript is awaited
YoutubeStart ==
    /\ At("generateRecipeFromYoutubeUrl", "start")
    /\ Call("transcript", "getTranscriptFromYoutubeUrl")
    /\ UNCHANGED <<req, site, html, textArg, draft, log, response>>
    /\ UNCHANGED utilVars
    /\ UNCHANGED dbVars

\* generateRecipeFromYoutubeUrl: no transcript is NO_RECIPE_FOUND, otherwise
\* structureTextToRecipe is awaited
YoutubeTranscribed ==
    /\ At("generateRecipeFromYoutubeUrl", "transcript")
    /\ Returned
    /\ IF ~Truthy(ret.v)
       THEN /\ Return(Rejected(orchestratorCatch(
                        RecipeExtractionError(NoTranscriptMessage, "NO_RECIPE_FOUND"))))
            /\ textArg' = textArg
       ELSE Call("structure", "structureTextToRecipe") /\ textArg' = ret.v
    /\ UNCHANGED <<req, site, html, draft, log, response>>
    /\ UNCHANGED utilVars
    /\ UNCHANGED dbVars

\* generateRecipeFromYoutubeUrl: sanitize, validate, then the thumbnail of
\* the video or, without a video id, the image generation
YoutubeStructured ==
    /\ At("generateRecipeFromYoutubeUrl", "structure")
    /\ Returned
    /\ IF ret.k = "throw"
       THEN Return(Rejected(orchestratorCatch(ret.e))) /\ draft' = draft
       ELSE IF SanitizeAndValidate(ret.v).k = "throw"
       THEN Return(Rejected(orchestratorCatch(SanitizeAndValidate(ret.v).e))) /\ draft' = draft
       ELSE IF Truthy(getYoutubeVideoId(req.content))
       THEN /\ Return(Fulfilled(WithImageUrls(SanitizeAndValidate(ret.v).v,
                        <<JStr(ThumbnailUrl(getYoutubeVideoId(req.content).str))>>)))
            /\ draft' = draft
       ELSE Call("image", "generateImageForRecipe") /\ draft' = SanitizeAndValidate(ret.v).v
    /\ UNCHANGED <<req, site, html, textArg, log, response>>
    /\ UNCHANGED utilVars
    /\ UNCHANGED dbVars

\* generateRecipeFromYoutubeUrl: the draft is returned with the generated image
YoutubeImaged ==
    /\ At("generateRecipeFromYoutubeUrl", "image")
    /\ Returned
    /\ Return(Fulfilled(WithImageUrls(draft, IF Truthy(ret.v) THEN <<ret.v>> ELSE <<>>)))
    /\ UNCHANGED <<req, site, html, textArg, draft, log, response>>
    /\ UNCHANGED utilVars
    /\ UNCHANGED dbVars

\* generateRecipeFromImage: up to the await of withRetry
ImageStart ==
    /\ At("generateRecipeFromImage", "start")
    /\ StartRetry("await", "image")
    /\ UNCHANGED <<req, html, textArg, draft, log, response>>
    /\ UNCHANGED harnessVars
    /\ UNCHANGED dbVars

\* generateRecipeFromImage: sanitize and validate; every error leaves as a
\* plain Error
ImageDone ==
    /\ At("generateRecipeFromImage", "await")
    /\ Returned
    /\ IF ret.k = "throw"
       THEN Return(Rejected(imageCatch(ret.e)))
       ELSE IF SanitizeAndValidate(ret.v).k = "throw"
       THEN Return(Rejected(imageCatch(SanitizeAndValidate(ret.v).e)))
       ELSE Return(SanitizeAndValidate(ret.v))
    /\ UNCHANGED <<req, site, html, textArg, draft, log, response>>
    /\ UNCHANGED utilVars
    /\ UNCHANGED dbVars

\* withRetry: one invocation of fn, from the AI call to the end of the
\* closure, and the catch block when it threw
AttemptSettles(first) ==
    /\ At("withRetry", "attempt")
    /\ first \in AiEvents(site)
    /\ LET c == FnCompletion(site, first)
       IN  /\ log' = Append(log, Event(site, KindOf(first), OutOf(c)))
           /\ IF c.k = "value"
              THEN Return(c) /\ UNCHANGED <<lastError, delays>>
              ELSE /\ lastError' = c.e
                   /\ IF withRetryCatch(c.e, attempt, maxRetries) = "throw"
                      THEN Return(c) /\ delays' = delays
                      ELSE /\ stack' = ReplaceTop("backoff")
                           /\ ret' = ret
                           /\ delays' = Append(delays, BackoffDelay(initialDelay, attempt))
    /\ UNCHANGED <<maxRetries, attempt, req, site, html, textArg, draft, response>>
    /\ UNCHANGED harnessVars
    /\ UNCHANGED dbVars

\* withRetry: the backoff timer elapsed; attempt++ and the loop condition
BackoffDone ==
    /\ At("withRetry", "backoff")
    /\ attempt' = attempt + 1
    /\ IF attempt + 1 < maxRetries
       THEN stack' = ReplaceTop("attempt") /\ ret' = ret
       ELSE Return(Rejected(lastError))
    /\ UNCHANGED <<maxRetries, lastError, delays, req, site, html, textArg, draft, log, response>>
    /\ UNCHANGED harnessVars
    /\ UNCHANGED dbVars



Next ==
    \/ \E body \in Bodies : Post(body)
    \/ PostResponds
    \/ StructureStart
    \/ StructureDone
    \/ PageTextStart
    \/ PageTextDone
    \/ PageTextStructured
    \/ ExtractStart
    \/ \E raw \in RawFetches : FetchSettles(OpEvent(fetchHtmlContent(raw)))
    \/ FetchSettles(TimerEvent)
    \/ Tier2Done
    \/ Tier3Done
    \/ UrlStart
    \/ UrlExtracted
    \/ UrlImaged
    \/ \E result \in ImageModelCompletions : GenerateImage(result)
    \/ TranscriptStart
    \/ TranscriptDone
    \/ YoutubeStart
    \/ YoutubeTranscribed
    \/ YoutubeStructured
    \/ YoutubeImaged
    \/ ImageStart
    \/ ImageDone
    \/ \E first \in AttemptEvents : AttemptSettles(first)
    \/ BackoffDone

Spec == Init /\ [][Next]_vars

(***************************************************************************)
(* Claims about withRetry and withTimeout, checked under SpecUtil.         *)
(***************************************************************************)
\* what the awaiting withRetry received from invocation i of fn
Seen(i) == races[i].seen

FailedTransiently(i) == Seen(i).k = "throw" /\ ~IsPermanent(Seen(i).e)

FailedPermanently(i) == Seen(i).k = "throw" /\ IsPermanent(Seen(i).e)

\* C6: when an invocation of fn raises NO_RECIPE_FOUND or VALIDATION_ERROR,
\* withRetry re-raises that very error at once: that invocation is the last
\* one, and no backoff wait follows it (only the waits before it were made).
\* In particular, if the first invocation raises it, fn is invoked once.
C6_PermanentNotRetried ==
    \A i \in DOMAIN races :
        FailedPermanently(i) =>
            /\ i = Len(races)
            /\ upc = "thrown"
            /\ outcome = Rejected(Seen(i).e)
            /\ Len(delays) = i - 1

C6_Witness ==
    /\ maxRetries = 3
    /\ Len(races) = 1
    /\ FailedPermanently(1)
    /\ Seen(1).e.code = "NO_RECIPE_FOUND"
    /\ upc = "thrown"

\* C7: fn is invoked at most maxRetries times and never after a success;
\* k transient failures followed by a success (k < maxRetries) return that
\* value after exactly k+1 invocations; a transient failure of invocation
\* number maxRetries re-raises that last error, and a transient failure of an
\* earlier invocation never ends the call.
C7_RetryCount ==
    /\ Len(races) <= maxRetries
    /\ \A i \in DOMAIN races :
          /\ i < Len(races) => FailedTransiently(i)
          /\ Seen(i).k = "value" =>
                /\ upc = "returned"
                /\ outcome = Seen(i)
                /\ i = Len(races)
          /\ FailedTransiently(i) /\ i = maxRetries =>
                /\ upc = "thrown"
                /\ outcome = Rejected(Seen(i).e)
          /\ FailedTransiently(i) /\ i < maxRetries /\ i = Len(races) =>
                upc = "backoff"
    /\ upc = "returned" => races # <<>> /\ Seen(Len(races)).k = "value"
    /\ upc = "thrown" /\ maxRetries >= 1 =>
          races # <<>> /\ outcome = Rejected(Seen(Len(races)).e)

C7_Witness ==
    /\ maxRetries = 3
    /\ Len(races) = 3
    /\ FailedTransiently(1)
    /\ FailedTransiently(2)
    /\ upc = "returned"
    /\ outcome = Fulfilled("value")

\* C8: the race of every withTimeout call is decided by the first of its two
\* racers to finish and by nothing else: before either finishes it is pending;
\* if the timer is first it rejects with TIMEOUT and the supplied message; if
\* the operation is first it carries the operation's value or error; what the
\* awaiting withRetry received is that completion, whatever finishes later.
C8_FirstSettlementWins ==
    \A i \in DOMAIN races :
        LET r == races[i]
            expected ==
                CASE r.first.by = "none"  -> Pending
                  [] r.first.by = "timer" ->
                        Rejected(RecipeExtractionError(errorMessage, "TIMEOUT"))
                  [] r.first.by = "op"    -> r.first.c
        IN  /\ r.race = expected
            /\ r.seen = IF r.first.by = "none" THEN NoCompletion ELSE expected
            /\ r.first.by = "none" <=> (r.op.k = "pending" /\ r.timer = "armed")

\* the timer won, the operation resolved afterwards, and withRetry had
\* already started the next attempt
C8_Witness ==
    /\ Len(races) >= 2
    /\ races[1].first.by = "timer"
    /\ races[1].op.k = "value"
    /\ races[1].seen = Rejected(RecipeExtractionError(errorMessage, "TIMEOUT"))
    /\ races[2].first.by = "op"
    /\ races[2].timer = "fired"

(***************************************************************************)
(* Claims about the request pipeline, checked under Spec.                  *)
(***************************************************************************)
Orchestrators ==
    {"generateRecipeFromUrl", "generateRecipeFromYoutubeUrl", "generateRecipeFromImage"}

\* the request goes through generateRecipeFromUrl
UrlRequest == req.type = "url" /\ ~IncludesYoutube(req.content)

\* generateRecipeFromUrl has completed: its caller holds the completion
UrlReturned == UrlRequest /\ At("POST", "await") /\ Returned

\* the calls of the log made at one of the withRetry sites
CallsAt(s) == { i \in DOMAIN log : log[i].ev = s }

TextCalls == { i \in DOMAIN log : log[i].ev \in Sites }

Logged(i, ev, outs) == \E j \in 1..(i - 1) : log[j].ev = ev /\ log[j].out \in outs

\* C1: every draft handed back by an orchestrator or by the POST handler
\* satisfies RecipeDataSchema
C1_Counterexample ==
    /\ (At("POST", "await") /\ ret.k = "value") => RecipeDataSchemaIssues(ret.v) = <<>>
    /\ response.status = 200 => RecipeDataSchemaIssues(response.body) = <<>>

\* C2: in extractRecipeFromUrl no AI call is made before the fetch succeeded
\* and the JSON-LD parse found nothing; the Tier 3 call is made only after
\* Tier 2 was skipped or yielded no draft; Tier 2 is skipped only on a page
\* without a title or without enough text, and yields no draft only after
\* its own AI call
C2_TiersInCostOrder ==
    \A i \in DOMAIN log :
        /\ (UrlRequest /\ log[i].ev \in Sites) => log[i].tier \in {"tier2", "tier3"}
        /\ (log[i].ev \in Sites /\ log[i].tier \in {"tier2", "tier3"}) =>
              /\ Logged(i, "fetch", {"value"})
              /\ Logged(i, "jsonld", {"not-found"})
        /\ (log[i].ev \in Sites /\ log[i].tier = "tier3") =>
              Logged(i, "tier2", {"skipped", "no-draft"})
        /\ (log[i].ev = "tier2" /\ log[i].out = "skipped") =>
              ~(/\ Truthy(parseOpenGraphTags(html))
                /\ Truthy(Get(parseOpenGraphTags(html), "title"))
                /\ Truthy(extractTextFromHtml(html)))
        /\ (log[i].ev = "tier2" /\ log[i].out = "no-draft") =>
              \E j \in 1..(i - 1) : log[j].ev = "pagetext" /\ log[j].tier = "tier2"

\* Tier 3 produced the draft after Tier 2 had run and yielded none
C2_Witness ==
    /\ UrlReturned
    /\ ret.k = "value"
    /\ \E i \in DOMAIN log : log[i].ev = "tier2" /\ log[i].out = "no-draft"
    /\ \E i \in DOMAIN log : log[i].ev = "structure" /\ log[i].tier = "tier3"
                             /\ log[i].out = "value"

\* the title of the Recipe markup of a page of RecipePages
MarkupTitle(doc) == doc[2].text.data.obj.name.str

MarkupDescription(doc) == doc[2].text.data.obj.description.str

\* the markup passes validation once sanitized
AcceptableMarkup(doc) ==
    /\ Len(Trim(MarkupTitle(doc))) \in 1..MaxTitleLength
    /\ Len(Trim(MarkupDescription(doc))) >= 1

ImageGenerations == { i \in DOMAIN log : log[i].ev = "generate-image" }

ScenarioB ==
    /\ UrlRequest
    /\ \E i \in DOMAIN log : log[i].ev = "jsonld" /\ log[i].out = "not-found"
    /\ \E i \in CallsAt("pagetext") : log[i].tier = "tier3"
    /\ \A i \in CallsAt("pagetext") : log[i].got = "ERROR"

\* C4 as stated: in scenario B the error generateRecipeFromUrl raises to its
\* caller is classified NO_RECIPE_FOUND
C4_Counterexample ==
    (ScenarioB /\ UrlReturned) => (ret.k = "throw" /\ ret.e.code = "NO_RECIPE_FOUND")

\* C4 amended: in scenario B extractRecipeFromUrl raises the classified
\* error NO_RECIPE_FOUND; generateRecipeFromUrl raises a plain Error with the
\* same message and no code, and POST answers 500 with that message
C4_NoRecipeFound ==
    /\ (ScenarioB /\ At("generateRecipeFromUrl", "extract") /\ Returned) =>
          ret = Rejected(RecipeExtractionError(NoRecipeMessage, "NO_RECIPE_FOUND"))
    /\ (ScenarioB /\ UrlReturned) => ret = Rejected(PlainError(NoRecipeMessage))
    /\ (ScenarioB /\ response.status # 0) =>
          response = [status |-> 500, error |-> NoRecipeMessage]

\* Tier 2 and Tier 3 of the article page both answered ERROR
C4_Witness ==
    /\ ScenarioB
    /\ UrlReturned
    /\ html = ArticlePage
    /\ Cardinality(CallsAt("pagetext")) = 2

\* C5: when the fetch of Tier 1 fails with NETWORK_ERROR or TIMEOUT, the
\* Tier 3 call has been made by the time generateRecipeFromUrl completes
C5_Counterexample ==
    (UrlReturned /\ \E i \in DOMAIN log : log[i].ev = "fetch" /\ log[i].out \in {"error", "timeout"})
        => \E j \in CallsAt("pagetext") : log[j].tier = "tier3"

TimedOut(s) == { i \in CallsAt(s) : log[i].out = "timeout" }

ImageTimeoutMessage == TimeoutMessageOf("image")

C10_Counterexample ==
    (/\ stack # <<>>
     /\ Top.fn \in Orchestrators
     /\ ret.k = "throw"
     /\ ret.e.cause.cls = "RecipeExtractionError")
        => ret.e.code = ret.e.cause.code

\* the request goes through generateRecipeFromYoutubeUrl
YoutubeRequest == req.type = "url" /\ IncludesYoutube(req.content)

\* generateRecipeFromYoutubeUrl has completed: its caller holds the completion
YoutubeReturned == YoutubeRequest /\ At("POST", "await") /\ Returned

\* getTranscriptFromYoutubeUrl was called and no attempt produced a transcript
NoTranscript ==
    /\ CallsAt("transcript") # {}
    /\ \A i \in CallsAt("transcript") : log[i].out # "value"

\* C13 as stated: without a transcript the error generateRecipeFromYoutubeUrl
\* raises is classified NO_RECIPE_FOUND, and neither the structuring call
\* nor an image step is made
C13_Counterexample ==
    (YoutubeReturned /\ NoTranscript) =>
        /\ ret.k = "throw"
        /\ ret.e.code = "NO_RECIPE_FOUND"
        /\ CallsAt("structure") = {}
        /\ ImageGenerations = {}

\* C13 amended: without a transcript (sentinel, too short a text, or a failed
\* retrieval) generateRecipeFromYoutubeUrl raises a plain Error with the
\* message of its NO_RECIPE_FOUND error and no code, POST answers 500 with
\* that message, and neither the structuring call nor an image step is made
C13_NoTranscript ==
    /\ (YoutubeReturned /\ NoTranscript) => ret = Rejected(PlainError(NoTranscriptMessage))
    /\ (YoutubeRequest /\ NoTranscript /\ response.status # 0) =>
          response = [status |-> 500, error |-> NoTranscriptMessage]
    /\ (YoutubeRequest /\ NoTranscript) => (CallsAt("structure") = {} /\ ImageGenerations = {})

\* the transcript call passed its deadline on both attempts
C13_Witness ==
    /\ YoutubeReturned
    /\ NoTranscript
    /\ Cardinality(TimedOut("transcript")) = 2
    /\ ret.k = "throw"

\* the imageUrls of the draft generateRecipeFromYoutubeUrl returned
ReturnedImageUrls == Get(ret.v, "imageUrls").arr

\* C14: in generateRecipeFromYoutubeUrl the image generation is called only
\* when no video identifier is parsed from the URL; with an identifier the
\* returned imageUrls is exactly the thumbnail URL of that identifier; in
\* every case imageUrls has at most one entry
C14_ThumbnailPreferred ==
    /\ (YoutubeRequest /\ ImageGenerations # {}) => ~Truthy(getYoutubeVideoId(req.content))
    /\ (req.content = UrlWatch) => ImageGenerations = {}
    /\ (YoutubeReturned /\ ret.k = "value") =>
          /\ Len(ReturnedImageUrls) <= 1
          /\ Truthy(getYoutubeVideoId(req.content)) =>
                ReturnedImageUrls = <<JStr(ThumbnailUrl(getYoutubeVideoId(req.content).str))>>
          /\ (req.content = UrlWatch) =>
                ReturnedImageUrls =
                    <<JStr(<<"https://", "img.youtube.com", "/vi/", "dQw4w9WgXcQ",
                             "/maxresdefault.jpg">>)>>

\* a draft came back for the watch URL, with its thumbnail
C14_Witness ==
    /\ YoutubeReturned
    /\ ret.k = "value"
    /\ req.content = UrlWatch
    /\ Len(ReturnedImageUrls) = 1
    /\ CallsAt("structure") # {}

\* C15: in generateRecipeFromUrl the image generation is called only with a
\* sanitized and validated draft, and when it yields nothing (null, or an
\* error caught inside generateImageForRecipe) that draft is still returned,
\* with an empty imageUrls, and no error reaches the caller
C15_ImageNonFatal ==
    /\ (UrlRequest /\ At("generateImageForRecipe", "start")) =>
          /\ RecipeDataSchemaIssues(draft) = <<>>
          /\ sanitizeRecipeData(draft).k = "value"
    /\ (UrlReturned /\ \E i \in ImageGenerations : log[i].out \in {"null", "error"}) =>
          /\ ret.k = "value"
          /\ ret.v = WithImageUrls(draft, <<>>)
          /\ Get(ret.v, "imageUrls") = JArr(<<>>)
          /\ RecipeDataSchemaIssues(ret.v) = <<>>
    /\ (UrlRequest /\ response.status # 0
          /\ \E i \in ImageGenerations : log[i].out \in {"null", "error"}) =>
          response.status = 200

\* the image model rejected the call and the draft came back all the same
C15_Witness ==
    /\ UrlReturned
    /\ \E i \in ImageGenerations : log[i].out = "error"
    /\ ret.k = "value"
    /\ Get(ret.v, "imageUrls") = JArr(<<>>)

(***************************************************************************)
(* normalizeUrl on its own: every string of at most MaxUrlTokens tokens is  *)
(* normalized, and the result of a successful call is normalized again.     *)
(***************************************************************************)
MaxUrlTokens == 3

UrlTokenAlphabet ==
    {"https://", "http://", "ftp://", "HTTPS://", "data:", "example.com", "exa mple.com",
     "/soup"}

UrlStrings == UNION { [1..n -> UrlTokenAlphabet] : n \in 0..MaxUrlTokens }

InitUrl ==
    /\ InitUtil
    /\ stack = <<>>
    /\ ret = NoCompletion
    /\ \E s \in UrlStrings : req = [type |-> "url", content |-> s]
    /\ site = "none"
    /\ html = NoPage
    /\ textArg = JUndef
    /\ draft = NoDraft
    /\ log = <<>>
    /\ response = NoResponse

\* normalizeUrl(content)
NormalizeOnce ==
    /\ stack = <<>>
    /\ stack' = <<Frame("normalizeUrl", "once")>>
    /\ ret' = normalizeUrl(req.content)
    /\ UNCHANGED <<req, site, html, textArg, draft, log, response>>
    /\ UNCHANGED utilVars
    /\ UNCHANGED dbVars

\* normalizeUrl(normalizeUrl(content))
NormalizeTwice ==
    /\ stack = <<Frame("normalizeUrl", "once")>>
    /\ ret.k = "value"
    /\ stack' = <<Frame("normalizeUrl", "twice")>>
    /\ outcome' = normalizeUrl(ret.v)
    /\ UNCHANGED <<ret, req, site, html, textArg, draft, log, response>>
    /\ UNCHANGED <<maxRetries, initialDelay, errorMessage, attempt, lastError, races, delays, upc>>
    /\ UNCHANGED dbVars

NextUrl == NormalizeOnce \/ NormalizeTwice

SpecUrl == InitUrl /\ [][NextUrl]_vars

\* the string starts with a scheme
HasScheme(s) ==
    /\ s # <<>>
    /\ \/ s[1] \in SpecialSchemeTokens \cup OpaqueSchemeTokens
       \/ \E k \in 2..Len(s) :
             IsSchemePrefix(s, k) /\ s[k] \in SpecialSchemeTokens \cup OpaqueSchemeTokens

\* C11: normalizeUrl is idempotent: where normalizeUrl(s) succeeds,
\* normalizeUrl(normalizeUrl(s)) succeeds with the same string, so an
\* already normalized URL is returned unchanged.
C11_Idempotent ==
    stack = <<Frame("normalizeUrl", "twice")>> => (outcome.k = "value" /\ outcome.v = ret.v)

C11_Witness ==
    /\ stack = <<Frame("normalizeUrl", "twice")>>
    /\ req.content # ret.v
    /\ outcome.k = "value"
    /\ outcome.v = <<"https://", "example.com", "/soup">>

\* C12 as stated: https:// is prepended exactly when the string has no
\* scheme, a string with any scheme is left as supplied, and
\* VALIDATION_ERROR is raised exactly when the parse of that string fails.
C12_Counterexample ==
    stack = <<Frame("normalizeUrl", "once")>> =>
        LET supplied == req.content
            parsed == IF HasScheme(supplied) THEN supplied ELSE <<"https://">> \o supplied
        IN  IF IsValidUrl(parsed)
            THEN ret.k = "value" /\ ret.v = parsed
            ELSE ret.k = "throw" /\ ret.e.code = "VALIDATION_ERROR"

(***************************************************************************)
(* sanitizeRecipeData and validateRecipeData on their own: a loosely typed  *)
(* value is sanitized, validated as it is, or sanitized and then validated. *)
(***************************************************************************)
Draft(title, description, servings, ingredients, instructions, imageUrls, sourceUrl) ==
    JObj([title |-> title, description |-> description, servings |-> servings,
          ingredients |-> ingredients, instructions |-> instructions,
          imageUrls |-> imageUrls, sourceUrl |-> sourceUrl])

TitleValues ==
    {JStr(TomatoSoup), JStr(<<" ">> \o TomatoSoup \o <<" ">>), JStr(Rep("a", MaxTitleLength + 1)),
     JUndef}

DescriptionValues == {JStr(ADescription), JStr(<<>>)}

ServingsValues ==
    {JNum(4), JNum(0), JStr(<<"6", " ", "servings">>), JUndef,
     JStr(<<SextillionDigits>>), JStr(<<OverflowDigits>>)}

IngredientCounts == {0, 1, MaxIngredients, MaxIngredients + 1}

InstructionCounts == {0, 1, MaxInstructions, MaxInstructions + 1}

IngredientsValues ==
    { JArr([i \in 1..n |-> GoodIngredient]) : n \in IngredientCounts }
    \cup { JStr(<<"salt">>),
           JArr(<<GoodIngredient, JObj([name |-> JStr(<<" ">>), quantity |-> JStr(<<>>)]),
                  JNull, JStr(<<"salt">>)>>) }

InstructionsValues ==
    { JArr([i \in 1..n |-> JStr(<<"Simmer">>)]) : n \in InstructionCounts }
    \cup { JUndef, JArr(<<JStr(<<" ", "Simmer">>), JStr(<<" ">>), JNum(2)>>) }

ImageUrlsValues == {JUndef, JArr(<<JStr(<<"exa mple.com">>)>>)}

SourceUrlValues == {JUndef, JStr(<<"exa mple.com">>)}

\* what an AI response or a parser can hand to sanitizeRecipeData
DataInputs ==
    { Draft(t, d, n, ing, ins, img, src) :
        t \in TitleValues, d \in DescriptionValues, n \in ServingsValues,
        ing \in IngredientsValues, ins \in InstructionsValues,
        img \in ImageUrlsValues, src \in SourceUrlValues }
    \cup {JNull, JUndef, JStr(RecipeProse), JNum(4), JArr(<<>>), EmptyDraft, MessyDraft}

InitData ==
    /\ InitUtil
    /\ stack = <<>>
    /\ ret = NoCompletion
    /\ req = NoRequest
    /\ site = "none"
    /\ html = NoPage
    /\ textArg = JUndef
    /\ draft \in DataInputs
    /\ log = <<>>
    /\ response = NoResponse

\* sanitizeRecipeData(data)
SanitizeInput ==
    /\ stack = <<>>
    /\ stack' = <<Frame("sanitizeRecipeData", "done")>>
    /\ ret' = sanitizeRecipeData(draft)
    /\ UNCHANGED <<req, site, html, textArg, draft, log, response>>
    /\ UNCHANGED utilVars
    /\ UNCHANGED dbVars

\* validateRecipeData(data)
ValidateInput ==
    /\ stack = <<>>
    /\ stack' = <<Frame("validateRecipeData", "done")>>
    /\ outcome' = validateRecipeData(draft)
    /\ UNCHANGED <<ret, req, site, html, textArg, draft, log, response>>
    /\ UNCHANGED <<maxRetries, initialDelay, errorMessage, attempt, lastError, races, delays, upc>>
    /\ UNCHANGED dbVars

\* validateRecipeData(sanitizeRecipeData(data))
ValidateSanitized ==
    /\ stack = <<Frame("sanitizeRecipeData", "done")>>
    /\ ret.k = "value"
    /\ stack' = <<Frame("validateRecipeData", "sanitized")>>
    /\ outcome' = validateRecipeData(ret.v)
    /\ UNCHANGED <<ret, req, site, html, textArg, draft, log, response>>
    /\ UNCHANGED <<maxRetries, initialDelay, errorMessage, attempt, lastError, races, delays, upc>>
    /\ UNCHANGED dbVars

\* sanitizeRecipeData(sanitizeRecipeData(data))
SanitizeAgain ==
    /\ stack = <<Frame("sanitizeRecipeData", "done")>>
    /\ ret.k = "value"
    /\ stack' = <<Frame("sanitizeRecipeData", "twice")>>
    /\ outcome' = sanitizeRecipeData(ret.v)
    /\ UNCHANGED <<ret, req, site, html, textArg, draft, log, response>>
    /\ UNCHANGED <<maxRetries, initialDelay, errorMessage, attempt, lastError, races, delays, upc>>
    /\ UNCHANGED dbVars

NextData == SanitizeInput \/ ValidateInput \/ ValidateSanitized \/ SanitizeAgain

SpecData == InitData /\ [][NextData]_vars

Sanitized == stack = <<Frame("sanitizeRecipeData", "done")>>

Validated == stack = <<Frame("validateRecipeData", "done")>>

ValidatedAfterSanitize == stack = <<Frame("validateRecipeData", "sanitized")>>

IsTrimmedString(x) == x.t = "string" /\ Trim(x.str) = x.str

\* the canonical shape of a sanitized draft
IsCanonical(v) ==
    /\ v.t = "object"
    /\ IsTrimmedString(Get(v, "title"))
    /\ IsTrimmedString(Get(v, "description"))
    /\ Get(v, "servings").t = "number" /\ Get(v, "servings").num > 0
    /\ Get(v, "ingredients").t = "array"
    /\ \A i \in DOMAIN Get(v, "ingredients").arr :
          LET ing == Get(v, "ingredients").arr[i]
          IN  /\ IsTrimmedString(Get(ing, "name")) /\ Get(ing, "name").str # <<>>
              /\ IsTrimmedString(Get(ing, "quantity"))
    /\ Get(v, "instructions").t = "array"
    /\ \A i \in DOMAIN Get(v, "instructions").arr :
          LET step == Get(v, "instructions").arr[i]
          IN  IsTrimmedString(step) /\ step.str # <<>>
    /\ Get(v, "imageUrls").t = "array"

\* the canonical draft of this input: defaults and empty lists where the
\* input has nothing usable
IsCanonicalFor(v, data) ==
    /\ IsCanonical(v)
    /\ Get(data, "title").t # "string" => Get(v, "title").str = <<>>
    /\ ParseInt(Get(data, "servings")) <= 0 => Get(v, "servings").num = 4
    /\ Get(data, "ingredients").t # "array" => Get(v, "ingredients").arr = <<>>
    /\ Get(data, "instructions").t # "array" => Get(v, "instructions").arr = <<>>

\* C16 as stated: sanitizeRecipeData raises nothing and returns a draft in
\* canonical shape for every loosely typed input, null and non-objects
\* included
C16_Counterexample == Sanitized => (ret.k = "value" /\ IsCanonicalFor(ret.v, draft))

\* on every input but null and undefined sanitizeRecipeData returns a draft
\* in canonical shape
SanitizeCanonicalOnValues ==
    (Sanitized /\ draft.t \notin {"null", "undefined"}) =>
        (ret.k = "value" /\ IsCanonicalFor(ret.v, draft))

FieldNames ==
    {"title", "description", "servings", "ingredients", "instructions", "imageUrls",
     "sourceUrl"}

FieldIssuesOf(f, x) ==
    CASE f = "title"        -> TitleIssues(x)
      [] f = "description"  -> DescriptionIssues(x)
      [] f = "servings"     -> ServingsIssues(x)
      [] f = "ingredients"  -> IngredientsIssues(x)
      [] f = "instructions" -> InstructionsIssues(x)
      [] f = "imageUrls"    -> ImageUrlsIssues(x)
      [] f = "sourceUrl"    -> SourceUrlIssues(x)

\* the fields of a draft that violate the schema
FailingFields(data) == { f \in FieldNames : FieldIssuesOf(f, Get(data, f)) # <<>> }

ReportedFields(issues) == { issues[i].field : i \in DOMAIN issues }

\* the value validateRecipeData was given
ValidatedInput == IF Validated THEN draft ELSE ret.v

\* C17: validateRecipeData returns the draft only when no field fails, and
\* otherwise raises one RecipeExtractionError with code VALIDATION_ERROR
\* whose message has a "field: reason" entry for every failing field
C17_AllViolationsReported ==
    (Validated \/ ValidatedAfterSanitize) =>
        IF ValidatedInput.t # "object"
        THEN outcome.k = "throw" /\ outcome.e.code = "VALIDATION_ERROR"
        ELSE IF FailingFields(ValidatedInput) = {}
        THEN outcome = Fulfilled(RecipeDataSchemaOutput(ValidatedInput))
        ELSE /\ outcome.k = "throw"
             /\ outcome.e.cls = "RecipeExtractionError"
             /\ outcome.e.code = "VALIDATION_ERROR"
             /\ outcome.e.msg.text = "Recipe validation failed"
             /\ ReportedFields(outcome.e.msg.issues) = FailingFields(ValidatedInput)
             /\ \A i \in DOMAIN outcome.e.msg.issues : outcome.e.msg.issues[i].message # ""

\* a draft failing in five fields at once
C17_Witness ==
    /\ Validated
    /\ Cardinality(FailingFields(draft)) >= 5
    /\ outcome.k = "throw"
    /\ Cardinality(ReportedFields(outcome.e.msg.issues)) >= 5

ListOf(data, f) == Get(data, f).arr

\* valid but for the number of its ingredients and instructions
OtherwiseValid(data) ==
    /\ data.t = "object"
    /\ \A f \in {"title", "description", "servings", "imageUrls", "sourceUrl"} :
          FieldIssuesOf(f, Get(data, f)) = <<>>
    /\ Get(data, "ingredients").t = "array"
    /\ \A i \in DOMAIN ListOf(data, "ingredients") :
          IngredientIssues(ListOf(data, "ingredients")[i], i - 1) = <<>>
    /\ Get(data, "instructions").t = "array"
    /\ \A i \in DOMAIN ListOf(data, "instructions") :
          InstructionIssues(ListOf(data, "instructions")[i], i - 1) = <<>>

\* C18: an otherwise valid draft is accepted exactly with 1..100
\* ingredients and 1..50 instructions; with 0 or 101 ingredients it raises
\* VALIDATION_ERROR with an entry for "ingredients", with 0 or 51
\* instructions one with an entry for "instructions"
C18_CountBounds ==
    (Validated /\ OtherwiseValid(draft)) =>
        LET n == Len(ListOf(draft, "ingredients"))
            m == Len(ListOf(draft, "instructions"))
        IN  /\ outcome.k = "value" <=> (n \in 1..100 /\ m \in 1..50)
            /\ n \notin 1..100 =>
                  /\ outcome.k = "throw"
                  /\ outcome.e.code = "VALIDATION_ERROR"
                  /\ \E i \in DOMAIN outcome.e.msg.issues :
                        /\ outcome.e.msg.issues[i].field = "ingredients"
                        /\ outcome.e.msg.issues[i].message \in
                              {"At least one ingredient is required", "Too many ingredients"}
            /\ m \notin 1..50 =>
                  /\ outcome.k = "throw"
                  /\ outcome.e.code = "VALIDATION_ERROR"
                  /\ \E i \in DOMAIN outcome.e.msg.issues :
                        outcome.e.msg.issues[i].field = "instructions"

\* 101 ingredients rejected, with nothing else wrong
C18_Witness ==
    /\ Validated
    /\ OtherwiseValid(draft)
    /\ Len(ListOf(draft, "ingredients")) = 101
    /\ Len(ListOf(draft, "instructions")) = 50
    /\ outcome.k = "throw"
    /\ Len(outcome.e.msg.issues) = 1


(***************************************************************************)
(* parseJsonLdRecipe on its own: documents of a few script elements, each  *)
(* one metadata block.                                                     *)
(***************************************************************************)

MaxBlocks == 2

Stew == <<"S", "t", "e", "w">>

WebSite == JObj([type |-> JStr(<<"WebSite">>), name |-> JStr(<<"Blog">>)])

\* a second complete Recipe, its instructions one string of two lines
StewRecipe ==
    JObj([type               |-> JStr(<<"Recipe">>),
          name               |-> JStr(Stew),
          recipeIngredient   |-> JArr(<<JStr(<<"salt">>)>>),
          recipeInstructions |-> JStr(<<"Chop", "\n", "Simmer">>)])

\* a complete Recipe whose @type is a list
ListTypedRecipe ==
    JObj([type               |-> JArr(<<JStr(<<"Thing">>), JStr(<<"Recipe">>)>>),
          name               |-> JStr(Stew),
          recipeIngredient   |-> ThreeIngredients,
          recipeInstructions |-> FourSteps])

\* a Recipe with the given ingredients and instructions
RecipeWith(ingredients, instructions) ==
    JObj([type               |-> JStr(<<"Recipe">>),
          name               |-> JStr(TomatoSoup),
          recipeIngredient   |-> ingredients,
          recipeInstructions |-> instructions])

BlankEntries == JArr(<<JStr(<<" ">>), JStr(<<>>)>>)

LackingIngredients == {JUndef, JArr(<<>>), JStr(<<"salt">>), JNum(2), BlankEntries}

LackingInstructions ==
    {JUndef, JArr(<<>>), JNum(2), JStr(<<" ">>), BlankEntries, JObj([text |-> JStr(<<"Chop">>)])}

LackingRecipes ==
    { RecipeWith(i, FourSteps) : i \in LackingIngredients }
    \cup { RecipeWith(ThreeIngredients, s) : s \in LackingInstructions }
    \cup { RecipeWith(JUndef, JUndef) }

\* a Recipe with ingredients and instructions but no name and no headline
UntitledRecipe ==
    JObj([type               |-> JStr(<<"Recipe">>),
          recipeIngredient   |-> ThreeIngredients,
          recipeInstructions |-> FourSteps])

Draftless == RecipeWith(ThreeIngredients, JUndef)

HowToStep(text) == JObj([type |-> JStr(<<"HowToStep">>), text |-> JStr(text)])

\* a HowToSection of two steps, without and with a name of its own
HowToSection ==
    JObj([type            |-> JStr(<<"HowToSection">>),
          itemListElement |-> JArr(<<HowToStep(<<"Chop">>), HowToStep(<<"Fry">>)>>)])

NamedHowToSection ==
    JObj([type            |-> JStr(<<"HowToSection">>),
          name            |-> JStr(<<"Sauce">>),
          itemListElement |-> JArr(<<HowToStep(<<"Chop">>), HowToStep(<<"Fry">>)>>)])

StepObjectsRecipe ==
    RecipeWith(ThreeIngredients, JArr(<<HowToStep(<<" ", "Chop", " ">>), JStr(<<"Fry">>)>>))

SectionRecipes ==
    {RecipeWith(ThreeIngredients, JArr(<<HowToSection>>)),
     RecipeWith(ThreeIngredients, JArr(<<NamedHowToSection, HowToStep(<<"Blend">>)>>))}

Graph(members) == JObj([graph |-> JArr(members)])

BlockData ==
    {SchemaRecipe(TomatoSoup, ADescription), StewRecipe, ListTypedRecipe, UntitledRecipe, WebSite,
     StepObjectsRecipe}
    \cup LackingRecipes
    \cup SectionRecipes
    \cup {JArr(<<Draftless, StewRecipe>>),
          JArr(<<WebSite, StewRecipe>>),
          JArr(<<JNull, StewRecipe>>),
          JArr(<<Draftless, RecipeWith(JArr(<<>>), FourSteps)>>),
          Graph(<<WebSite, StewRecipe>>),
          Graph(<<Draftless, StewRecipe>>),
          Graph(<<JNull, StewRecipe>>),
          Graph(<<WebSite, Draftless>>),
          JObj([graph |-> StewRecipe])}

Blocks ==
    { Script("application/ld+json", JsonText(d)) : d \in BlockData }
    \cup {Script("application/ld+json", MalformedText),
          Script("application/ld+json", EmptyText),
          Script("text/javascript", JsonText(StewRecipe))}

Documents == UNION { [1..n -> Blocks] : n \in 1..MaxBlocks }

InitJsonLd ==
    /\ InitUtil
    /\ stack = <<>>
    /\ ret = NoCompletion
    /\ req = NoRequest
    /\ site = "none"
    /\ html \in Documents
    /\ textArg = JUndef
    /\ draft = NoDraft
    /\ log = <<>>
    /\ response = NoResponse

\* parseJsonLdRecipe(html, url): every throw is caught inside, so the call
\* completes with the draft or with null
ParseJsonLd ==
    /\ stack = <<>>
    /\ stack' = <<Frame("parseJsonLdRecipe", "done")>>
    /\ ret' = Fulfilled(parseJsonLdRecipe(html))
    /\ UNCHANGED <<req, site, html, textArg, draft, log, response>>
    /\ UNCHANGED utilVars
    /\ UNCHANGED dbVars

NextJsonLd == ParseJsonLd

SpecJsonLd == InitJsonLd /\ [][NextJsonLd]_vars

ParsedJsonLd == stack = <<Frame("parseJsonLdRecipe", "done")>>

HasRecipeType(x) ==
    \/ Get(x, "type") = JStr(<<"Recipe">>)
    \/ /\ Get(x, "type").t = "array"
       /\ \E i \in DOMAIN Get(x, "type").arr : Get(x, "type").arr[i] = JStr(<<"Recipe">>)

\* the candidate records of one list entry: the entry itself when it is a
\* Recipe, else the Recipe members of its graph
EntryCandidates(item) ==
    IF item.t \in {"null", "undefined"} THEN <<>>
    ELSE IF Get(item, "type") = JStr(<<"Recipe">>) THEN <<item>>
    ELSE IF Get(item, "graph").t = "array"
    THEN LET g == Get(item, "graph").arr
         IN  Filter(g, [i \in 1..Len(g) |-> Get(g[i], "type") = JStr(<<"Recipe">>)])
    ELSE IF HasRecipeType(item) THEN <<item>>
    ELSE <<>>

BlockCandidates(script) ==
    IF script.text.kind # "json" THEN <<>>
    ELSE LET items == IF script.text.data.t = "array" THEN script.text.data.arr
                      ELSE <<script.text.data>>
         IN  ConcatAll([i \in 1..Len(items) |-> EntryCandidates(items[i])])

\* every candidate record of the document, in document order
Candidates(doc) ==
    LET scripts == JsonLdScripts(doc)
    IN  ConcatAll([i \in 1..Len(scripts) |-> BlockCandidates(scripts[i])])

\* non-empty title, at least one ingredient, at least one instruction
FullyValid(c) == transformSchemaOrgToRecipe(c) # JNull

FirstFullyValid(doc) ==
    LET cs   == Candidates(doc)
        hits == { i \in DOMAIN cs : FullyValid(cs[i]) }
    IN  IF hits = {} THEN JNull
        ELSE transformSchemaOrgToRecipe(cs[CHOOSE i \in hits : \A j \in hits : i <= j])

\* C19: parseJsonLdRecipe returns the first fully valid Recipe candidate of
\* the document, in document order over the blocks and over the list entries
\* and graph members of a block, and null only when no candidate is fully
\* valid.  The code gives up a block at a null list entry, at a graph that
\* is no list and at a null graph member, and looks only at the first Recipe
\* member of a graph, so this does not hold.
C19_Counterexample == ParsedJsonLd => ret.v = FirstFullyValid(html)

\* what does hold: a returned draft is that of a fully valid candidate, and a
\* document with no candidate fully valid gives null
ReturnsSomeValidCandidate ==
    ParsedJsonLd =>
        \/ ret.v = JNull
        \/ \E i \in DOMAIN Candidates(html) :
              ret.v = transformSchemaOrgToRecipe(Candidates(html)[i])

\* malformed and empty blocks, and incomplete list entries, are skipped
SkipsIncompleteEntries ==
    ParsedJsonLd /\ (\A i \in DOMAIN html :
                        html[i].text.kind = "json" =>
                            /\ Get(html[i].text.data, "graph") = JUndef
                            /\ html[i].text.data # JArr(<<JNull, StewRecipe>>))
        => ret.v = FirstFullyValid(html)

IsBlankString(x) == x.t = "string" /\ Trim(x.str) = <<>>

\* recipeIngredient is missing, empty, no list, or a list of blank entries
LacksIngredients(c) ==
    LET x == Get(c, "recipeIngredient")
    IN  \/ x.t # "array"
        \/ \A i \in DOMAIN x.arr : IsBlankString(x.arr[i])

\* recipeInstructions is missing, empty, neither a list nor a string, a blank
\* string, or a list of blank entries
LacksInstructions(c) ==
    LET x == Get(c, "recipeInstructions")
    IN  \/ x.t \notin {"array", "string"}
        \/ x.t = "string" /\ Trim(x.str) = <<>>
        \/ x.t = "array" /\ \A i \in DOMAIN x.arr : IsBlankString(x.arr[i])

AllCandidatesLack(doc) ==
    \A i \in DOMAIN Candidates(doc) :
        LacksIngredients(Candidates(doc)[i]) \/ LacksInstructions(Candidates(doc)[i])

\* C20: for a document all of whose Recipe blocks lack ingredients or lack
\* instructions (missing, empty, wrong type, or only blank entries),
\* parseJsonLdRecipe completes normally with null.
C20_LackingGivesNull ==
    ParsedJsonLd /\ AllCandidatesLack(html) => ret = Fulfilled(JNull)

\* two blocks, the first lacking instructions by type, the second lacking
\* ingredients by blank entries
C20_Witness ==
    /\ ParsedJsonLd
    /\ Len(html) = 2
    /\ html[1] = Script("application/ld+json", JsonText(RecipeWith(ThreeIngredients, JNum(2))))
    /\ html[2] = Script("application/ld+json", JsonText(RecipeWith(BlankEntries, FourSteps)))
    /\ AllCandidatesLack(html)
    /\ ret = Fulfilled(JNull)

NonBlankString(x) == x.t = "string" /\ Trim(x.str) # <<>>

\* the steps one entry of recipeInstructions stands for: a string, a
\* HowToStep with its text, or a HowToSection with its member steps
EntrySteps(e) ==
    IF e.t = "string" THEN <<Trim(e.str)>>
    ELSE IF Get(e, "itemListElement").t = "array"
    THEN LET m == Get(e, "itemListElement").arr
         IN  [i \in 1..Len(m) |-> Trim(Get(m[i], "text").str)]
    ELSE <<Trim(Get(e, "text").str)>>

IsStepEntry(e) ==
    \/ NonBlankString(e)
    \/ e.t = "object" /\ NonBlankString(Get(e, "text"))
    \/ /\ e.t = "object"
       /\ Get(e, "itemListElement").t = "array"
       /\ Get(e, "itemListElement").arr # <<>>
       /\ \A i \in DOMAIN Get(e, "itemListElement").arr :
             NonBlankString(Get(Get(e, "itemListElement").arr[i], "text"))

\* the instruction steps of the markup, in order
MarkupSteps(c) ==
    LET x == Get(c, "recipeInstructions")
    IN  IF x.t = "string"
        THEN LET lines == SplitLines(x.str, <<>>)
             IN  Filter([i \in 1..Len(lines) |-> Trim(lines[i])],
                        [i \in 1..Len(lines) |-> Trim(lines[i]) # <<>>])
        ELSE ConcatAll([i \in 1..Len(x.arr) |-> EntrySteps(x.arr[i])])

\* a schema.org Recipe with a title, at least one ingredient and at least
\* one instruction
ValidMarkup(c) ==
    /\ c.t = "object"
    /\ Get(c, "type") = JStr(<<"Recipe">>)
    /\ NonBlankString(Get(c, "name"))
    /\ Get(c, "recipeIngredient").t = "array"
    /\ Get(c, "recipeIngredient").arr # <<>>
    /\ \A i \in DOMAIN Get(c, "recipeIngredient").arr :
          NonBlankString(Get(c, "recipeIngredient").arr[i])
    /\ \/ NonBlankString(Get(c, "recipeInstructions"))
       \/ /\ Get(c, "recipeInstructions").t = "array"
          /\ Get(c, "recipeInstructions").arr # <<>>
          /\ \A i \in DOMAIN Get(c, "recipeInstructions").arr :
                IsStepEntry(Get(c, "recipeInstructions").arr[i])

\* a string without its white space
Squeeze(str) == Filter(str, [i \in 1..Len(str) |-> ~IsSpace(str[i])])

MarkupServings(c) ==
    IF Get(c, "recipeYield") = JUndef THEN DefaultServings
    ELSE FirstNumber(Get(c, "recipeYield"))

\* the draft d carries the fields of the markup c
MatchesMarkup(d, c) ==
    /\ d.t = "object"
    /\ Get(d, "title") = Get(c, "name")
    /\ Get(d, "description") = OrElse(Get(c, "description"), JStr(<<>>))
    /\ Get(d, "servings") = JNum(MarkupServings(c))
    /\ LET got  == Get(d, "ingredients").arr
           want == Get(c, "recipeIngredient").arr
       IN  /\ Len(got) = Len(want)
           /\ \A i \in DOMAIN got :
                 Squeeze(Get(got[i], "quantity").str \o Get(got[i], "name").str)
                     = Squeeze(want[i].str)
    /\ LET got  == Get(d, "instructions").arr
           want == MarkupSteps(c)
       IN  got = [i \in 1..Len(want) |-> JStr(want[i])]

\* the document is one metadata block holding one valid Recipe
OneValidRecord ==
    /\ Len(html) = 1
    /\ html[1].attr = "application/ld+json"
    /\ html[1].text.kind = "json"
    /\ ValidMarkup(html[1].text.data)

HasSection(c) ==
    /\ Get(c, "recipeInstructions").t = "array"
    /\ \E i \in DOMAIN Get(c, "recipeInstructions").arr :
          Get(Get(c, "recipeInstructions").arr[i], "itemListElement") # JUndef

\* C21: for every valid schema.org Recipe with at least one ingredient and
\* one instruction, parseJsonLdRecipe returns a draft whose title,
\* description, servings, ingredients and instructions match the markup, with
\* the same number and order of ingredients and of steps.  A HowToSection
\* among the instructions comes out as one step, its name or the text
\* "[object Object]", so this does not hold.
C21_Counterexample ==
    ParsedJsonLd /\ OneValidRecord =>
        ret.v # JNull /\ MatchesMarkup(ret.v, html[1].text.data)

\* what does hold: the round trip of a record whose instructions are
\* strings and HowToStep objects
RoundTripWithoutSections ==
    ParsedJsonLd /\ OneValidRecord /\ ~HasSection(html[1].text.data) =>
        ret.v # JNull /\ MatchesMarkup(ret.v, html[1].text.data)

\* a record of a string step and a HowToStep, returned field for field
RoundTripCase ==
    /\ ParsedJsonLd /\ OneValidRecord
    /\ html[1].text.data = StepObjectsRecipe
    /\ MatchesMarkup(ret.v, html[1].text.data)

SentinelAnswers ==
    { i \in CallsAt("pagetext") : log[i].got \in {"ERROR", "error-padded"} }

\* C22: when the page-text call answers "ERROR" in any case and with any
\* white space around it, the closure gives null, no page-text call and no
\* structuring call follows in that tier, and getTextContentFromUrlWithAI
\* completes with null
C22_SentinelIsNotFound ==
    \A i \in SentinelAnswers :
        /\ log[i].out = "null"
        /\ \A j \in DOMAIN log :
              (j > i /\ log[j].tier = log[i].tier) => log[j].ev \notin {"pagetext", "structure"}
        /\ (i = Len(log) /\ stack # <<>>
               /\ Top.fn \in {"getTextContentFromUrlWithAI", "extractRecipeFromUrl"})
              => ret = Fulfilled(JNull)

\* Tier 3 answered " error\n" after a first attempt that was rejected, and
\* extractRecipeFromUrl holds null
C22_Witness ==
    /\ At("extractRecipeFromUrl", "tier3")
    /\ ret = Fulfilled(JNull)
    /\ Len(log) \in SentinelAnswers
    /\ log[Len(log)].got = "error-padded"
    /\ log[Len(log)].tier = "tier3"
    /\ log[Len(log) - 1].ev = "pagetext"
    /\ log[Len(log) - 1].tier = "tier3"
    /\ log[Len(log) - 1].out = "error"

(***************************************************************************)
(* getTranscriptFromYoutubeUrl on the response text alone: the closure and *)
(* the return of the function, over answers around the minimum length.     *)
(***************************************************************************)

MaxPad == 2

Paddings == { Rep(" ", k) : k \in 0..MaxPad } \cup {<<"\n">>}

TranscriptLengths ==
    {0, 1, 5, MinTranscriptLength - 1, MinTranscriptLength, MinTranscriptLength + 1}

TranscriptTexts ==
    { JStr(lead \o Rep(c, n) \o trail) :
        lead \in Paddings, trail \in Paddings, c \in {"t", "E"}, n \in TranscriptLengths }
    \cup { JStr(lead \o ErrorSentinel \o trail) : lead \in Paddings, trail \in Paddings }
    \cup { JStr(<<"e", "r", "r", "o", "r">>), JUndef }

InitTranscript ==
    /\ InitUtil
    /\ stack = <<>>
    /\ ret = NoCompletion
    /\ req = NoRequest
    /\ site = "none"
    /\ html = NoPage
    /\ textArg \in TranscriptTexts
    /\ draft = NoDraft
    /\ log = <<>>
    /\ response = NoResponse

\* the closure handed to withRetry, from response.text on
TranscriptClosure ==
    /\ stack = <<>>
    /\ stack' = <<Frame("getTranscriptFromYoutubeUrl", "await")>>
    /\ ret' = transcriptOf(textArg)
    /\ UNCHANGED <<req, site, html, textArg, draft, log, response>>
    /\ UNCHANGED utilVars
    /\ UNCHANGED dbVars

\* return transcript
TranscriptReturns ==
    /\ stack = <<Frame("getTranscriptFromYoutubeUrl", "await")>>
    /\ stack' = <<Frame("getTranscriptFromYoutubeUrl", "done")>>
    /\ outcome' = (IF ret.k = "value" THEN ret ELSE Fulfilled(JNull))
    /\ UNCHANGED <<ret, req, site, html, textArg, draft, log, response>>
    /\ UNCHANGED <<maxRetries, initialDelay, errorMessage, attempt, lastError, races, delays, upc>>
    /\ UNCHANGED dbVars

NextTranscript == TranscriptClosure \/ TranscriptReturns

SpecTranscript == InitTranscript /\ [][NextTranscript]_vars

TranscriptReturned == stack = <<Frame("getTranscriptFromYoutubeUrl", "done")>>

\* C23: a response whose trimmed length is below 100 gives null, sentinel or
\* not; a response of 100 characters or more after trimming that is not the
\* sentinel gives the trimmed text
C23_MinimumLength ==
    (TranscriptReturned /\ textArg.t = "string") =>
        LET trimmed == Trim(textArg.str)
        IN  /\ Len(trimmed) < 100 => outcome = Fulfilled(JNull)
            /\ (Len(trimmed) >= 100 /\ ToUpperCase(trimmed) # ErrorSentinel)
                  => outcome = Fulfilled(JStr(trimmed))

\* 99 characters between two blanks, 101 as they came, give null
C23_Witness ==
    /\ TranscriptReturned
    /\ textArg = JStr(<<" ">> \o Rep("t", 99) \o <<" ">>)
    /\ outcome = Fulfilled(JNull)

\* 100 characters between blanks come back trimmed
TrimmedTranscriptCase ==
    /\ TranscriptReturned
    /\ textArg = JStr(<<" ">> \o Rep("t", 100) \o <<"\n">>)
    /\ outcome = Fulfilled(JStr(Rep("t", 100)))

\* C24: withRetry waits initialDelay * 2^attemptIndex before each retry
\* (1000 ms, then 2000 ms with the defaults), once per failed invocation that
\* is retried, and not after the last failed invocation nor after an error
\* that is not retried
C24_BackoffSchedule ==
    /\ \A k \in DOMAIN delays : delays[k] = initialDelay * 2^(k - 1)
    /\ initialDelay = 1000 /\ Len(delays) >= 2 => delays[1] = 1000 /\ delays[2] = 2000
    /\ upc = "backoff" => Len(delays) = Len(races)
    /\ upc \in {"attempt", "returned", "thrown"} /\ races # <<>> =>
          Len(delays) = Len(races) - 1
    /\ races = <<>> => delays = <<>>

\* three invocations failed, the third one last: two waits, none after it
C24_Witness ==
    /\ maxRetries = 3
    /\ initialDelay = 1000
    /\ Len(races) = 3
    /\ upc = "thrown"
    /\ FailedTransiently(3)
    /\ delays = <<1000, 2000>>

(***************************************************************************)
(* Requests on one stored recipe.  Each request is a record of `handlers`: *)
(* the route it runs, where it is (pc), its body, what it read (seen), the *)
(* URL it uploaded and the status it answered.  Every await is a step, so  *)
(* steps of different requests interleave.                                 *)
(***************************************************************************)

MaxRequests == 3

RequestIds == 1..MaxRequests

IdleHandler ==
    [route |-> "none", pc |-> "idle", body |-> JUndef, seen |-> <<>>, imageUrl |-> "",
     status |-> 0]

\* the stored Tomato Soup: one image, three ingredients, four steps
SoupRows ==
    [exists       |-> TRUE,
     imageUrls    |-> <<"stored.png">>,
     ingredients  |-> <<"tomatoes", "onion", "salt">>,
     instructions |-> <<"Chop", "Fry", "Simmer", "Blend">>]

StoredRecipes == {SoupRows, NoRows}

\* `recipe-${id}-${Date.now()}.png` as stored by the blob service
BlobUrl(i) ==
    CASE i = 1 -> "blob-1.png" [] i = 2 -> "blob-2.png" [] i = 3 -> "blob-3.png"
      [] OTHER -> "blob-4.png"

GeneratedImages == {JStr(<<"data:", "image/png;base64,", "iVBOR">>), JNull}

UploadCompletions == {Fulfilled("url"), Rejected(PlainError(Msg("Blob upload failed")))}

InitIdle ==
    /\ maxRetries = DefaultMaxRetries
    /\ initialDelay = DefaultInitialDelay
    /\ errorMessage = Msg("Request timeout")
    /\ attempt = 0
    /\ lastError = UndefinedError
    /\ races = <<>>
    /\ delays = <<>>
    /\ upc = "idle"
    /\ outcome = NoCompletion
    /\ stack = <<>>
    /\ ret = NoCompletion
    /\ req = NoRequest
    /\ site = "none"
    /\ html = NoPage
    /\ textArg = JUndef
    /\ draft = NoDraft
    /\ log = <<>>
    /\ response = NoResponse

InitImages ==
    /\ InitIdle
    /\ db \in StoredRecipes
    /\ handlers = [i \in RequestIds |-> IdleHandler]

Answer(i, status) == [handlers EXCEPT ![i].pc = "done", ![i].status = status]

\* generate-image POST: prisma.recipe.findUnique, 404 when there is none
ImageFind(i) ==
    /\ handlers[i].pc = "idle"
    /\ handlers' = IF db.exists
                   THEN [handlers EXCEPT ![i].route = "generate-image", ![i].pc = "generate",
                                         ![i].seen = db.imageUrls]
                   ELSE [Answer(i, 404) EXCEPT ![i].route = "generate-image"]
    /\ UNCHANGED db
    /\ UNCHANGED utilVars
    /\ UNCHANGED reqVars

\* generate-image POST: generateImageForRecipe returned the image or null
ImageGenerated(i, image) ==
    /\ handlers[i].route = "generate-image"
    /\ handlers[i].pc = "generate"
    /\ handlers' = IF Truthy(image) THEN [handlers EXCEPT ![i].pc = "upload"]
                   ELSE Answer(i, 500)
    /\ UNCHANGED db
    /\ UNCHANGED utilVars
    /\ UNCHANGED reqVars

\* generate-image POST: uploadBase64Image returned the URL or threw
ImageUploaded(i, c) ==
    /\ handlers[i].route = "generate-image"
    /\ handlers[i].pc = "upload"
    /\ handlers' = IF c.k = "value"
                   THEN [handlers EXCEPT ![i].pc = "update", ![i].imageUrl = BlobUrl(i)]
                   ELSE Answer(i, 500)
    /\ UNCHANGED db
    /\ UNCHANGED utilVars
    /\ UNCHANGED reqVars

\* generate-image POST: prisma.recipe.update with
\* imageUrls: [...recipe.imageUrls, imageUrl], then the 200 answer
ImageStored(i) ==
    /\ handlers[i].route = "generate-image"
    /\ handlers[i].pc = "update"
    /\ db' = [db EXCEPT !.imageUrls = Append(handlers[i].seen, handlers[i].imageUrl)]
    /\ handlers' = Answer(i, 200)
    /\ UNCHANGED utilVars
    /\ UNCHANGED reqVars

NextImages ==
    \/ \E i \in RequestIds : ImageFind(i)
    \/ \E i \in RequestIds, image \in GeneratedImages : ImageGenerated(i, image)
    \/ \E i \in RequestIds, c \in UploadCompletions : ImageUploaded(i, c)
    \/ \E i \in RequestIds : ImageStored(i)

SpecImages == InitImages /\ [][NextImages]_vars

Succeeded == { i \in RequestIds : handlers[i].pc = "done" /\ handlers[i].status = 200 }

AllAnswered == \A i \in RequestIds : handlers[i].pc = "done"

Range(seq) == { seq[k] : k \in DOMAIN seq }

\* C25: once the generate-image requests on a recipe have completed, the
\* stored imageUrls is the list stored before them followed by the URL of
\* every request that answered 200.  Two requests that both read the list
\* before either has written it each store their own URL after what they
\* read, and the second write drops the URL of the first.
C25_Counterexample ==
    (AllAnswered /\ db.exists) =>
        /\ SubSeq(db.imageUrls, 1, 1) = SoupRows.imageUrls
        /\ Len(db.imageUrls) = 1 + Cardinality(Succeeded)
        /\ \A i \in Succeeded : handlers[i].imageUrl \in Range(db.imageUrls)

\* what does hold: the stored list is what the last writer read, followed by
\* its URL, and the URLs stored before the requests stay
LastWriteWins ==
    db.exists =>
        /\ SubSeq(db.imageUrls, 1, 1) = SoupRows.imageUrls
        /\ Succeeded # {} =>
              \E i \in Succeeded : db.imageUrls = Append(handlers[i].seen, handlers[i].imageUrl)

(***************************************************************************)
(* Progress of the request pipeline.  A step of the code that can run does *)
(* run and an armed timer fires; nothing is assumed of the remote          *)
(* services: a response may never come.                                    *)
(***************************************************************************)

\* a step of the code or a timer can take the request on: the guard of
\* every action that needs no response from a remote service
CanGoOn ==
    \/ At("POST", "await") /\ Returned
    \/ At("structureTextToRecipe", "start")
    \/ At("structureTextToRecipe", "await") /\ Returned
    \/ At("getTextContentFromUrlWithAI", "start")
    \/ At("getTextContentFromUrlWithAI", "text") /\ Returned
    \/ At("getTextContentFromUrlWithAI", "structure") /\ Returned
    \/ At("extractRecipeFromUrl", "start")
    \/ At("extractRecipeFromUrl", "fetch")
    \/ At("extractRecipeFromUrl", "tier2") /\ Returned
    \/ At("extractRecipeFromUrl", "tier3") /\ Returned
    \/ At("generateRecipeFromUrl", "start")
    \/ At("generateRecipeFromUrl", "extract") /\ Returned
    \/ At("generateRecipeFromUrl", "image") /\ Returned
    \/ At("getTranscriptFromYoutubeUrl", "start")
    \/ At("getTranscriptFromYoutubeUrl", "await") /\ Returned
    \/ At("generateRecipeFromYoutubeUrl", "start")
    \/ At("generateRecipeFromYoutubeUrl", "transcript") /\ Returned
    \/ At("generateRecipeFromYoutubeUrl", "structure") /\ Returned
    \/ At("generateRecipeFromYoutubeUrl", "image") /\ Returned
    \/ At("generateRecipeFromImage", "start")
    \/ At("generateRecipeFromImage", "await") /\ Returned
    \/ At("withRetry", "attempt") /\ TimerEvent \in AiEvents(site)
    \/ At("withRetry", "backoff")

OrchestratorRunning == \E i \in DOMAIN stack : stack[i].fn \in Orchestrators

\* C26: every invocation of generateRecipeFromUrl,
\* generateRecipeFromYoutubeUrl and generateRecipeFromImage eventually
\* returns or raises when timers fire, whatever the remote services do: as
\* long as one is running, a step of the code or a timer can take it on.
\* generateImageForRecipe awaits the image model without a deadline, so an
\* invocation that reaches it can go on only when the model answers.
C26_Counterexample == OrchestratorRunning => CanGoOn

\* the image generation is the only place where an invocation depends on a
\* remote answer
OnlyImageGenerationBlocks ==
    OrchestratorRunning /\ ~CanGoOn => At("generateImageForRecipe", "start")

\* a remote call is awaited
AwaitsRemote ==
    \/ At("extractRecipeFromUrl", "fetch")
    \/ At("withRetry", "attempt")
    \/ At("generateImageForRecipe", "start")

\* what does hold: the HTML fetch and every AI text or image-analysis call
\* is awaited with its deadline armed; the image generation is the one call
\* that is not
DeadlineExceptImageGeneration ==
    AwaitsRemote /\ ~At("generateImageForRecipe", "start")
        => ENABLED (FetchSettles(TimerEvent) \/ AttemptSettles(TimerEvent))

\* the invocations of fn whose network or AI call has not settled
InFlight == { i \in DOMAIN races : races[i].op.k = "pending" }

\* C27: at most one network or AI call is outstanding at any time; when a
\* deadline fires and withRetry starts the next attempt, the call of the
\* earlier attempt is no longer in flight.  withTimeout only stops waiting:
\* the promise it raced is not cancelled, so the call of an attempt that
\* timed out is still in flight beside that of the next attempt.
C27_Counterexample == Cardinality(InFlight) <= 1

\* what does hold: a call in flight beside a later one is a call whose
\* deadline fired first; the attempts themselves are started one at a time
OverlapOnlyAfterDeadline ==
    \A i \in InFlight : i < Len(races) => races[i].first.by = "timer"

\* Tier 1 accepted the JSON-LD draft of the page
Tier1Accepted == \E i \in DOMAIN log : log[i].ev = "jsonld" /\ log[i].out = "found"

\* validateRecipeData of the sanitized Tier 1 draft
Tier1Validation == validateRecipeData(sanitizeRecipeData(parseJsonLdRecipe(html)).v)

\* C28: when Tier 1 accepts a JSON-LD draft that fails validateRecipeData,
\* neither Tier 2 nor Tier 3 nor the image generation is attempted, and
\* generateRecipeFromUrl raises the validation failure
C28_ValidationAfterTiers ==
    (UrlRequest /\ Tier1Accepted /\ Tier1Validation.k = "throw") =>
        /\ \A i \in DOMAIN log :
              log[i].ev \in {"fetch", "jsonld"} /\ log[i].tier = "none"
        /\ UrlReturned =>
              /\ ret.k = "throw"
              /\ ret.e.msg = Tier1Validation.e.msg
              /\ ret.e.msg.issues # <<>>

\* the page's Recipe has a title of 201 characters; the caller holds the
\* validation failure and only the fetch and the JSON-LD parse were made
C28_Witness ==
    /\ UrlReturned
    /\ html = RecipePage(Rep("a", 201), ADescription)
    /\ Tier1Accepted
    /\ Len(log) = 2
    /\ ret.k = "throw"
    /\ ret.e.msg.text = "Recipe validation failed"
    /\ Len(ret.e.msg.issues) = 1
    /\ ret.e.msg.issues[1].field = "title"

(***************************************************************************)
(* sanitizeRecipeData applied twice, and what validation can still report  *)
(* on a sanitized draft.                                                   *)
(***************************************************************************)
SanitizedTwice == stack = <<Frame("sanitizeRecipeData", "twice")>>

\* servings of a sanitized draft: a positive integer
HasPositiveIntegerServings(v) ==
    /\ Get(v, "servings").t = "number"
    /\ Get(v, "servings").num > 0
    /\ IsInteger(Get(v, "servings").num)

HasNamedIngredients(v) ==
    \A i \in DOMAIN Get(v, "ingredients").arr :
        Get(Get(v, "ingredients").arr[i], "name").str # <<>>

HasNonEmptyInstructions(v) ==
    \A i \in DOMAIN Get(v, "instructions").arr :
        Get(v, "instructions").arr[i].str # <<>>

\* an issue on the title length, the empty description, the number of
\* ingredients or of instructions, or a URL field
IsResidualIssue(issue) ==
    \/ issue.field \in {"title", "description", "imageUrls", "sourceUrl"}
    \/ issue.field \in {"ingredients", "instructions"} /\ issue.index = -1

\* C29 as stated: sanitizing twice gives what sanitizing once gives; a
\* sanitized draft has positive integer servings, named ingredients and
\* non-empty instructions; and validating it fails only on the title length,
\* the empty description, the ingredient or instruction count or a URL field.
C29_Counterexample ==
    /\ SanitizedTwice => outcome = ret
    /\ (Sanitized /\ ret.k = "value") =>
          /\ HasPositiveIntegerServings(ret.v)
          /\ HasNamedIngredients(ret.v)
          /\ HasNonEmptyInstructions(ret.v)
    /\ (ValidatedAfterSanitize /\ outcome.k = "throw") =>
          \A i \in DOMAIN outcome.e.msg.issues : IsResidualIssue(outcome.e.msg.issues[i])

\* parseInt of the input's servings is a number that String() writes in
\* another form than its digits
BeyondDigits(d) == ParseInt(Get(d, "servings")) \in {Sextillion, Infinity}

\* what holds of sanitizeRecipeData: everything the sentence says, except
\* for servings that parse to a number from 1e21 on
IdempotentBelowSextillion ==
    /\ (SanitizedTwice /\ ~BeyondDigits(draft)) => outcome = ret
    /\ (Sanitized /\ ret.k = "value") =>
          /\ Get(ret.v, "servings").t = "number" /\ Get(ret.v, "servings").num > 0
          /\ ~BeyondDigits(draft) => HasPositiveIntegerServings(ret.v)
          /\ HasNamedIngredients(ret.v)
          /\ HasNonEmptyInstructions(ret.v)
    /\ (ValidatedAfterSanitize /\ outcome.k = "throw" /\ ~BeyondDigits(draft)) =>
          \A i \in DOMAIN outcome.e.msg.issues : IsResidualIssue(outcome.e.msg.issues[i])

\* the two failures: servings of 22 digits change on the second pass, and
\* servings of 400 digits are rejected by the schema after sanitizing
SecondPassDiffers ==
    /\ SanitizedTwice
    /\ Get(draft, "servings") = JStr(<<SextillionDigits>>)
    /\ Get(ret.v, "servings") = JNum(Sextillion)
    /\ Get(outcome.v, "servings") = JNum(1)

InfiniteServingsRejected ==
    /\ ValidatedAfterSanitize
    /\ Get(draft, "servings") = JStr(<<OverflowDigits>>)
    /\ Get(ret.v, "servings") = JNum(Infinity)
    /\ outcome.k = "throw"
    /\ \E i \in DOMAIN outcome.e.msg.issues : outcome.e.msg.issues[i].field = "servings"

(***************************************************************************)
(* SpecPut: PUT /api/recipes/[id] on one recipe, by several requests.  Each *)
(* await of the handler is one step; the rows of the recipe are written by  *)
(* their name (ingredients) and their text (instructions).                  *)
(***************************************************************************)
PutBody(ingredients, instructions, imageUrls) ==
    JObj([title |-> JStr(TomatoSoup), ingredients |-> ingredients,
          instructions |-> instructions, imageUrls |-> imageUrls])

PancakeBody ==
    PutBody(JArr(<<"flour", "eggs">>), JArr(<<"Mix", "Bake">>), JArr(<<"pancake.png">>))

SaladBody == PutBody(JArr(<<"lettuce">>), JArr(<<"Toss">>), JUndef)

\* a body that only renames the recipe: it has no lists
TitleOnlyBody == JObj([title |-> JStr(TomatoSoup)])

PutBodies == {PancakeBody, SaladBody, TitleOnlyBody}

\* request.json(): the parsed body, or the SyntaxError of a body that is not JSON
JsonCompletions ==
    { Fulfilled(b) : b \in PutBodies }
    \cup {Rejected(OtherError("SyntaxError", Msg("Unexpected end of JSON input")))}

InitPut ==
    /\ InitIdle
    /\ db \in StoredRecipes
    /\ handlers = [i \in RequestIds |-> IdleHandler]

\* PUT: await request.json(); the catch answers 500
PutReadBody(i, c) ==
    /\ handlers[i].pc = "idle"
    /\ handlers' = IF c.k = "value"
                   THEN [handlers EXCEPT ![i].route = "put", ![i].pc = "deleteIngredients",
                                         ![i].body = c.v]
                   ELSE [Answer(i, 500) EXCEPT ![i].route = "put"]
    /\ UNCHANGED db
    /\ UNCHANGED utilVars
    /\ UNCHANGED reqVars

\* PUT: await prisma.ingredient.deleteMany({ where: { recipeId: id } })
PutDeleteIngredients(i) ==
    /\ handlers[i].route = "put"
    /\ handlers[i].pc = "deleteIngredients"
    /\ db' = [db EXCEPT !.ingredients = <<>>]
    /\ handlers' = [handlers EXCEPT ![i].pc = "deleteInstructions"]
    /\ UNCHANGED utilVars
    /\ UNCHANGED reqVars

\* PUT: await prisma.instruction.deleteMany({ where: { recipeId: id } })
PutDeleteInstructions(i) ==
    /\ handlers[i].route = "put"
    /\ handlers[i].pc = "deleteInstructions"
    /\ db' = [db EXCEPT !.instructions = <<>>]
    /\ handlers' = [handlers EXCEPT ![i].pc = "update"]
    /\ UNCHANGED utilVars
    /\ UNCHANGED reqVars

\* PUT: await prisma.recipe.update with the nested creates.  body.ingredients
\* .map throws on a body without the list, and the update rejects when the
\* recipe does not exist; the catch answers 500.  The creates add the body's
\* rows to the rows the recipe has at that moment.
PutUpdate(i) ==
    /\ handlers[i].route = "put"
    /\ handlers[i].pc = "update"
    /\ LET body == handlers[i].body
       IN  IF Get(body, "ingredients").t # "array" \/ Get(body, "instructions").t # "array"
              \/ ~db.exists
           THEN /\ handlers' = Answer(i, 500)
                /\ UNCHANGED db
           ELSE /\ handlers' = Answer(i, 200)
                /\ db' = [db EXCEPT
                            !.imageUrls    = IF Get(body, "imageUrls").t = "array"
                                             THEN Get(body, "imageUrls").arr ELSE <<>>,
                            !.ingredients  = @ \o Get(body, "ingredients").arr,
                            !.instructions = @ \o Get(body, "instructions").arr]
    /\ UNCHANGED utilVars
    /\ UNCHANGED reqVars

NextPut ==
    \/ \E i \in RequestIds, c \in JsonCompletions : PutReadBody(i, c)
    \/ \E i \in RequestIds : PutDeleteIngredients(i)
    \/ \E i \in RequestIds : PutDeleteInstructions(i)
    \/ \E i \in RequestIds : PutUpdate(i)

SpecPut == InitPut /\ [][NextPut]_vars

\* the rows stored before the requests (a PUT neither creates nor deletes
\* the recipe itself)
RowsBefore == IF db.exists THEN SoupRows ELSE NoRows

HasLists(body) ==
    Get(body, "ingredients").t = "array" /\ Get(body, "instructions").t = "array"

\* the stored lists are exactly those of the body of request i
StoresBodyOf(i) ==
    /\ handlers[i].route = "put"
    /\ HasLists(handlers[i].body)
    /\ db.ingredients = Get(handlers[i].body, "ingredients").arr
    /\ db.instructions = Get(handlers[i].body, "instructions").arr

\* C30 as stated: once all PUT requests on the recipe have finished, in any
\* interleaving and whatever their responses were, the stored ingredients
\* and instructions are the lists stored before the requests or exactly the
\* lists of one request body.
C30_Counterexample ==
    AllAnswered =>
        \/ db.ingredients = RowsBefore.ingredients /\ db.instructions = RowsBefore.instructions
        \/ \E i \in RequestIds : StoresBodyOf(i)

\* a failed update leaves the recipe without its lists
EmptyRemainder ==
    /\ AllAnswered
    /\ db = [SoupRows EXCEPT !.ingredients = <<>>, !.instructions = <<>>]
    /\ \A i \in RequestIds : handlers[i].status = 500

\* two updates that both deleted before either created leave both bodies' rows
MixOfTwoBodies ==
    /\ AllAnswered
    /\ db.ingredients = <<"flour", "eggs", "lettuce">>
    /\ db.instructions = <<"Mix", "Bake", "Toss">>

\* what holds of the handler: a stored row is a row of the recipe before the
\* requests or a row of some request body, and a recipe that does not exist
\* is left without rows
RowsComeFromBodies ==
    /\ \A r \in Range(db.ingredients) :
          \/ r \in Range(RowsBefore.ingredients)
          \/ \E i \in RequestIds : HasLists(handlers[i].body)
                                   /\ r \in Range(Get(handlers[i].body, "ingredients").arr)
    /\ ~db.exists => db = NoRows

====
